---- MODULE Spec2Model ----
(***************************************************************************)
(* PokemonCard (ERC-721 asset registry) and PokemonSwap (escrow swap       *)
(* coordinator).  Every external call is one transaction: it runs to its   *)
(* end on the contract storage, and a failed require reverts the whole     *)
(* call.  The handlers are operators from a storage record to a result     *)
(* record [err, st, ret, ev]; the actions commit st when err = OK and keep *)
(* the storage otherwise.  What the contracts inherit from OpenZeppelin    *)
(* (ERC721, Pausable, Ownable, ReentrancyGuard) is modelled with them.     *)
(* The owner of each contract is its deployer throughout Spec and changes  *)
(* under SpecOwnable.  The log of the events the calls emit is kept under  *)
(* SpecLog; Spec and SpecOwnable follow the storage alone.  SpecWide is a   *)
(* registry of three assets under the calls of a swap.                     *)
(***************************************************************************)
EXTENDS Integers, Sequences, FiniteSets, TLC

\* ---------------------------------------------------------------- bounds
MaxTokens == 2
MaxSwaps == 2
\* the longest event log followed under SpecLog
MaxLog == 12
\* the assets of the registry under SpecWide
MaxTokensWide == 3

\* -------------------------------------------------------------- accounts
Users == {"A", "B", "C"}
\* the account that deploys both contracts (deploy.js), Ownable's owner
Deployer == "C"
\* address(this) of PokemonSwap
SwapAddr == "Swap"
\* address(0)
Zero == "0x0"
Address == Users \cup {SwapAddr, Zero}
\* the inputs the calls are made with: mint to A or B; approve names the
\* coordinator or nobody; B may make C its operator for all its assets
MintTo == {"A", "B", SwapAddr, Zero}
ApproveTo == {SwapAddr, Zero}
ForAllOwners == {"B"}
ForAllOperators == {"C"}
Uris == {"uri"}

Tokens == 1..MaxTokens
SwapIds == 0..MaxSwaps

\* ----------------------------------------------------------- failure kinds
\* the revert reasons of the contracts, under the names the design gives them
OK == "ok"
SystemPaused == "Pausable: paused"
NotPaused == "Pausable: not paused"
NotAdmin == "Ownable: caller is not the owner"
IdenticalAssets == "Cannot swap the same token"
NotOwner == "Not the owner of tokenA"
CounterpartyMismatch == "TokenB not owned by specified owner"
NotApprovedA == "Contract not approved for tokenA"
NotApprovedB == "Contract not approved for tokenB"
SwapNotPending == "Swap already executed"
NotCounterparty == "Not the tokenB owner"
NotProposer == "Not the tokenA owner"
UnknownAsset == "ERC721: invalid token ID"
NotAuthorized == "ERC721: caller is not token owner or approved"
OwnershipChanged == "ERC721: transfer from incorrect owner"
ToZero == "ERC721: transfer to the zero address"
MintToZero == "ERC721: mint to the zero address"
NotReceiver == "ERC721: transfer to non ERC721Receiver implementer"
ApprovalToOwner == "ERC721: approval to current owner"
NotHolder == "ERC721: approve caller is not token owner or approved for all"
ApproveToCaller == "ERC721: approve to caller"
Reentrant == "ReentrancyGuard: reentrant call"
NewOwnerZero == "Ownable: new owner is the zero address"

\* the values of ReentrancyGuard._status
NOT_ENTERED == 1
ENTERED == 2

\* ------------------------------------------------------------------ state
VARIABLES
    owners,            \* PokemonCard: tokenId -> holder (Zero: not minted)
    tokenApprovals,    \* PokemonCard: tokenId -> approved operator (Zero: none)
    operatorApprovals, \* PokemonCard: set of <<owner, operator>> approved for all
    tokenURIs,         \* PokemonCard: tokenId -> metadata URI
    nextTokenId,       \* PokemonCard._nextTokenId
    cardPaused,        \* PokemonCard's Pausable flag
    cardOwner,         \* PokemonCard's Ownable owner
    swaps,             \* PokemonSwap.swaps: swapId -> Swap struct
    nextSwapId,        \* PokemonSwap.nextSwapId
    swapPaused,        \* PokemonSwap's Pausable flag
    swapOwner,         \* PokemonSwap's Ownable owner
    status,            \* PokemonSwap's ReentrancyGuard status
    log,               \* the Transfer and Swap* events emitted so far, in order
    tokens,            \* useTokens: the token list of the page
    swapList,          \* useSwaps: the swap list of the page
    delivered,         \* the events of the log handed to the pages' listeners
    creationBlock,     \* the events of the log in blocks before currentBlock - 10000
    walletState,       \* useWallet: address, isConnected, isConnecting
    manuallyDisconnected, \* useWallet: the manual-disconnect flag of the hook
    localStorage,      \* the browser's item 'manuallyDisconnected' is 'true'
    listening,         \* useWallet: accountsChanged listener registered
    effectDue,         \* useWallet: the effect to run after the last render
    calls,             \* useWallet: the async functions waiting at an await
    accounts           \* the wallet extension: accounts the site may see

chainVars == <<owners, tokenApprovals, operatorApprovals, tokenURIs, nextTokenId,
               cardPaused, cardOwner, swaps, nextSwapId, swapPaused, swapOwner,
               status, log>>

viewVars == <<tokens, swapList, delivered, creationBlock>>

walletVars == <<walletState, manuallyDisconnected, localStorage, listening,
                effectDue, calls, accounts>>

vars == <<chainVars, viewVars, walletVars>>

\* the storage of both contracts as one record
Storage ==
    [owners |-> owners, tokenApprovals |-> tokenApprovals,
     operatorApprovals |-> operatorApprovals, tokenURIs |-> tokenURIs,
     nextTokenId |-> nextTokenId, cardPaused |-> cardPaused,
     cardOwner |-> cardOwner,
     swaps |-> swaps, nextSwapId |-> nextSwapId, swapPaused |-> swapPaused,
     swapOwner |-> swapOwner, status |-> status]

\* the zero value of the Swap struct: what swaps[id] reads for an id never
\* written and after delete swaps[id]
EmptySwap ==
    [tokenAOwner |-> Zero, tokenA |-> 0, tokenBOwner |-> Zero, tokenB |-> 0,
     executed |-> FALSE]

\* the result of a call: a revert with its reason, or a return (ret is the
\* value returned, 0 for a call that returns none) with the storage it leaves;
\* ev is the sequence of events the call has logged, none when it reverts
Fail(s, e) == [err |-> e, st |-> s, ret |-> 0, ev |-> <<>>]
Return(s, v) == [err |-> OK, st |-> s, ret |-> v, ev |-> <<>>]
Done(s) == Return(s, 0)
\* emit e at the end of the call r
Emit(r, e) == [r EXCEPT !.ev = Append(@, e)]
\* the call r, made after calls that logged the events evs
After(evs, r) == [r EXCEPT !.ev = evs \o @]

\* ----------------------------------------------------------------- events
Transfer(from, to, id) ==
    [name |-> "Transfer", from |-> from, to |-> to, tokenId |-> id]
Approval(owner, approved, id) ==
    [name |-> "Approval", owner |-> owner, approved |-> approved, tokenId |-> id]
ApprovalForAll(owner, operator, approved) ==
    [name |-> "ApprovalForAll", owner |-> owner, operator |-> operator,
     approved |-> approved]
Paused(contract, account) ==
    [name |-> "Paused", contract |-> contract, account |-> account]
Unpaused(contract, account) ==
    [name |-> "Unpaused", contract |-> contract, account |-> account]
OwnershipTransferred(previousOwner, newOwner) ==
    [name |-> "OwnershipTransferred", previousOwner |-> previousOwner,
     newOwner |-> newOwner]
SwapCreated(swapId, tokenAOwner, tokenA, tokenBOwner, tokenB) ==
    [name |-> "SwapCreated", swapId |-> swapId, tokenAOwner |-> tokenAOwner,
     tokenA |-> tokenA, tokenBOwner |-> tokenBOwner, tokenB |-> tokenB]
SwapExecuted(swapId, tokenAOwner, tokenBOwner) ==
    [name |-> "SwapExecuted", swapId |-> swapId, tokenAOwner |-> tokenAOwner,
     tokenBOwner |-> tokenBOwner]
SwapCancelled(swapId, tokenAOwner) ==
    [name |-> "SwapCancelled", swapId |-> swapId, tokenAOwner |-> tokenAOwner]

\* ------------------------------------------------------ PokemonCard (ERC721)
exists(s, id) == id \in DOMAIN s.owners /\ s.owners[id] # Zero

isApprovedForAll(s, owner, operator) == <<owner, operator>> \in s.operatorApprovals

isApprovedOrOwner(s, spender, id) ==
    \/ spender = s.owners[id]
    \/ isApprovedForAll(s, s.owners[id], spender)
    \/ s.tokenApprovals[id] = spender

\* transferFrom without the check of the recipient
transferFromToAnyone(s, sender, from, to, id) ==
    IF ~exists(s, id) THEN Fail(s, UnknownAsset)
    ELSE IF ~isApprovedOrOwner(s, sender, id) THEN Fail(s, NotAuthorized)
    ELSE IF s.owners[id] # from THEN Fail(s, OwnershipChanged)
    ELSE Emit(Done([s EXCEPT !.owners[id] = to, !.tokenApprovals[id] = Zero]),
              Transfer(from, to, id))

\* transferFrom leaving the asset's approval in place
transferFromKeepingApproval(s, sender, from, to, id) ==
    IF ~exists(s, id) THEN Fail(s, UnknownAsset)
    ELSE IF ~isApprovedOrOwner(s, sender, id) THEN Fail(s, NotAuthorized)
    ELSE IF s.owners[id] # from THEN Fail(s, OwnershipChanged)
    ELSE IF to = Zero THEN Fail(s, ToZero)
    ELSE Emit(Done([s EXCEPT !.owners[id] = to]), Transfer(from, to, id))

\* transferFrom open to every caller
transferFromByAnyone(s, sender, from, to, id) ==
    IF ~exists(s, id) THEN Fail(s, UnknownAsset)
    ELSE IF s.owners[id] # from THEN Fail(s, OwnershipChanged)
    ELSE IF to = Zero THEN Fail(s, ToZero)
    ELSE Emit(Done([s EXCEPT !.owners[id] = to, !.tokenApprovals[id] = Zero]),
              Transfer(from, to, id))

\* transferFrom of a registry that pauses transfers too (ERC721Pausable)
transferFromWhenNotPaused(s, sender, from, to, id) ==
    IF s.cardPaused THEN Fail(s, SystemPaused)
    ELSE IF ~exists(s, id) THEN Fail(s, UnknownAsset)
    ELSE IF ~isApprovedOrOwner(s, sender, id) THEN Fail(s, NotAuthorized)
    ELSE IF s.owners[id] # from THEN Fail(s, OwnershipChanged)
    ELSE IF to = Zero THEN Fail(s, ToZero)
    ELSE Emit(Done([s EXCEPT !.owners[id] = to, !.tokenApprovals[id] = Zero]),
              Transfer(from, to, id))

\* ERC721.transferFrom(from, to, tokenId) called by sender
transferFrom(s, sender, from, to, id) ==
    IF ~exists(s, id) THEN Fail(s, UnknownAsset)
    ELSE IF ~isApprovedOrOwner(s, sender, id) THEN Fail(s, NotAuthorized)
    ELSE IF s.owners[id] # from THEN Fail(s, OwnershipChanged)
    ELSE IF to = Zero THEN Fail(s, ToZero)
    ELSE Emit(Done([s EXCEPT !.owners[id] = to, !.tokenApprovals[id] = Zero]),
              Transfer(from, to, id))

\* ERC721.approve(to, tokenId) called by sender
approve(s, sender, to, id) ==
    IF ~exists(s, id) THEN Fail(s, UnknownAsset)
    ELSE IF to = s.owners[id] THEN Fail(s, ApprovalToOwner)
    ELSE IF ~(sender = s.owners[id] \/ isApprovedForAll(s, s.owners[id], sender))
         THEN Fail(s, NotHolder)
    ELSE Emit(Done([s EXCEPT !.tokenApprovals[id] = to]),
              Approval(s.owners[id], to, id))

\* ERC721.setApprovalForAll(operator, approved) called by sender
setApprovalForAll(s, sender, operator, approved) ==
    IF sender = operator THEN Fail(s, ApproveToCaller)
    ELSE Emit(Done([s EXCEPT !.operatorApprovals =
                      IF approved THEN @ \cup {<<sender, operator>>}
                      ELSE @ \ {<<sender, operator>>}]),
              ApprovalForAll(sender, operator, approved))

\* mint keeping the asset it created when the recipient check fails
mintNotRolledBack(s, sender, to, uri) ==
    IF s.cardPaused THEN Fail(s, SystemPaused)
    ELSE IF to = Zero THEN Fail(s, MintToZero)
    ELSE IF to = SwapAddr
         THEN Fail([s EXCEPT !.owners[s.nextTokenId] = to], NotReceiver)
    ELSE Emit(Done([s EXCEPT !.owners[s.nextTokenId] = to,
                             !.tokenURIs[s.nextTokenId] = uri,
                             !.nextTokenId = @ + 1]),
              Transfer(Zero, to, s.nextTokenId))

\* mint leaving the counter of asset ids where it was
mintWithoutCount(s, sender, to, uri) ==
    IF s.cardPaused THEN Fail(s, SystemPaused)
    ELSE IF to = Zero THEN Fail(s, MintToZero)
    ELSE IF to = SwapAddr THEN Fail(s, NotReceiver)
    ELSE Emit(Done([s EXCEPT !.owners[s.nextTokenId] = to,
                             !.tokenURIs[s.nextTokenId] = uri]),
              Transfer(Zero, to, s.nextTokenId))

\* mint without whenNotPaused
mintWhilePaused(s, sender, to, uri) ==
    IF to = Zero THEN Fail(s, MintToZero)
    ELSE IF to = SwapAddr THEN Fail(s, NotReceiver)
    ELSE Emit(Done([s EXCEPT !.owners[s.nextTokenId] = to,
                             !.tokenURIs[s.nextTokenId] = uri,
                             !.nextTokenId = @ + 1]),
              Transfer(Zero, to, s.nextTokenId))

\* PokemonCard.mint(to, uri): _safeMint, _setTokenURI, _nextTokenId++
mint(s, sender, to, uri) ==
    IF s.cardPaused THEN Fail(s, SystemPaused)
    ELSE IF to = Zero THEN Fail(s, MintToZero)
    ELSE IF to = SwapAddr THEN Fail(s, NotReceiver)
    ELSE Emit(Done([s EXCEPT !.owners[s.nextTokenId] = to,
                             !.tokenURIs[s.nextTokenId] = uri,
                             !.nextTokenId = @ + 1]),
              Transfer(Zero, to, s.nextTokenId))

cardPause(s, sender) ==
    IF sender # s.cardOwner THEN Fail(s, NotAdmin)
    ELSE IF s.cardPaused THEN Fail(s, SystemPaused)
    ELSE Emit(Done([s EXCEPT !.cardPaused = TRUE]), Paused("PokemonCard", sender))

cardUnpause(s, sender) ==
    IF sender # s.cardOwner THEN Fail(s, NotAdmin)
    ELSE IF ~s.cardPaused THEN Fail(s, NotPaused)
    ELSE Emit(Done([s EXCEPT !.cardPaused = FALSE]), Unpaused("PokemonCard", sender))

\* Ownable.transferOwnership(newOwner) of PokemonCard called by sender
cardTransferOwnership(s, sender, newOwner) ==
    IF sender # s.cardOwner THEN Fail(s, NotAdmin)
    ELSE IF newOwner = Zero THEN Fail(s, NewOwnerZero)
    ELSE Emit(Done([s EXCEPT !.cardOwner = newOwner]),
              OwnershipTransferred(s.cardOwner, newOwner))

\* Ownable.renounceOwnership() of PokemonCard called by sender
cardRenounceOwnership(s, sender) ==
    IF sender # s.cardOwner THEN Fail(s, NotAdmin)
    ELSE Emit(Done([s EXCEPT !.cardOwner = Zero]),
              OwnershipTransferred(s.cardOwner, Zero))

\* -------------------------------------------------------------- PokemonSwap

\* createSwap recording the swap without moving tokenA into escrow
createSwapNoEscrow(s, sender, tokenA, tokenBOwner, tokenB) ==
    IF s.swapPaused THEN Fail(s, SystemPaused)
    ELSE IF s.status = ENTERED THEN Fail(s, Reentrant)
    ELSE IF tokenA = tokenB THEN Fail(s, IdenticalAssets)
    ELSE IF ~exists(s, tokenA) THEN Fail(s, UnknownAsset)
    ELSE IF s.owners[tokenA] # sender THEN Fail(s, NotOwner)
    ELSE IF ~exists(s, tokenB) THEN Fail(s, UnknownAsset)
    ELSE IF s.owners[tokenB] # tokenBOwner THEN Fail(s, CounterpartyMismatch)
    ELSE IF s.tokenApprovals[tokenA] # SwapAddr THEN Fail(s, NotApprovedA)
    ELSE
      LET swapId == s.nextSwapId
          s1 == [s EXCEPT !.status = ENTERED,
                          !.nextSwapId = @ + 1,
                          !.swaps[swapId] =
                              [tokenAOwner |-> sender, tokenA |-> tokenA,
                               tokenBOwner |-> tokenBOwner, tokenB |-> tokenB,
                               executed |-> FALSE]]
          t1 == Done(s1)
      IN  IF t1.err # OK THEN Fail(s, t1.err) ELSE
          Emit(After(t1.ev, Return([t1.st EXCEPT !.status = NOT_ENTERED], swapId)),
               SwapCreated(swapId, sender, tokenA, tokenBOwner, tokenB))

\* createSwap without its own check of the approval of tokenA
createSwapNoApprovalCheck(s, sender, tokenA, tokenBOwner, tokenB) ==
    IF s.swapPaused THEN Fail(s, SystemPaused)
    ELSE IF s.status = ENTERED THEN Fail(s, Reentrant)
    ELSE IF tokenA = tokenB THEN Fail(s, IdenticalAssets)
    ELSE IF ~exists(s, tokenA) THEN Fail(s, UnknownAsset)
    ELSE IF s.owners[tokenA] # sender THEN Fail(s, NotOwner)
    ELSE IF ~exists(s, tokenB) THEN Fail(s, UnknownAsset)
    ELSE IF s.owners[tokenB] # tokenBOwner THEN Fail(s, CounterpartyMismatch)
    ELSE
      LET swapId == s.nextSwapId
          s1 == [s EXCEPT !.status = ENTERED,
                          !.nextSwapId = @ + 1,
                          !.swaps[swapId] =
                              [tokenAOwner |-> sender, tokenA |-> tokenA,
                               tokenBOwner |-> tokenBOwner, tokenB |-> tokenB,
                               executed |-> FALSE]]
          t1 == transferFrom(s1, SwapAddr, sender, SwapAddr, tokenA)
      IN  IF t1.err # OK THEN Fail(s, t1.err) ELSE
          Emit(After(t1.ev, Return([t1.st EXCEPT !.status = NOT_ENTERED], swapId)),
               SwapCreated(swapId, sender, tokenA, tokenBOwner, tokenB))

\* createSwap checking the approval of tokenA before the holder of tokenB
createSwapApprovalFirst(s, sender, tokenA, tokenBOwner, tokenB) ==
    IF s.swapPaused THEN Fail(s, SystemPaused)
    ELSE IF s.status = ENTERED THEN Fail(s, Reentrant)
    ELSE IF tokenA = tokenB THEN Fail(s, IdenticalAssets)
    ELSE IF ~exists(s, tokenA) THEN Fail(s, UnknownAsset)
    ELSE IF s.owners[tokenA] # sender THEN Fail(s, NotOwner)
    ELSE IF s.tokenApprovals[tokenA] # SwapAddr THEN Fail(s, NotApprovedA)
    ELSE IF ~exists(s, tokenB) THEN Fail(s, UnknownAsset)
    ELSE IF s.owners[tokenB] # tokenBOwner THEN Fail(s, CounterpartyMismatch)
    ELSE
      LET swapId == s.nextSwapId
          s1 == [s EXCEPT !.status = ENTERED,
                          !.nextSwapId = @ + 1,
                          !.swaps[swapId] =
                              [tokenAOwner |-> sender, tokenA |-> tokenA,
                               tokenBOwner |-> tokenBOwner, tokenB |-> tokenB,
                               executed |-> FALSE]]
          t1 == transferFrom(s1, SwapAddr, sender, SwapAddr, tokenA)
      IN  IF t1.err # OK THEN Fail(s, t1.err) ELSE
          Emit(After(t1.ev, Return([t1.st EXCEPT !.status = NOT_ENTERED], swapId)),
               SwapCreated(swapId, sender, tokenA, tokenBOwner, tokenB))

\* createSwap without the check that the two assets differ
createSwapSameAsset(s, sender, tokenA, tokenBOwner, tokenB) ==
    IF s.swapPaused THEN Fail(s, SystemPaused)
    ELSE IF s.status = ENTERED THEN Fail(s, Reentrant)
    ELSE IF ~exists(s, tokenA) THEN Fail(s, UnknownAsset)
    ELSE IF s.owners[tokenA] # sender THEN Fail(s, NotOwner)
    ELSE IF ~exists(s, tokenB) THEN Fail(s, UnknownAsset)
    ELSE IF s.owners[tokenB] # tokenBOwner THEN Fail(s, CounterpartyMismatch)
    ELSE IF s.tokenApprovals[tokenA] # SwapAddr THEN Fail(s, NotApprovedA)
    ELSE
      LET swapId == s.nextSwapId
          s1 == [s EXCEPT !.status = ENTERED,
                          !.nextSwapId = @ + 1,
                          !.swaps[swapId] =
                              [tokenAOwner |-> sender, tokenA |-> tokenA,
                               tokenBOwner |-> tokenBOwner, tokenB |-> tokenB,
                               executed |-> FALSE]]
          t1 == transferFrom(s1, SwapAddr, sender, SwapAddr, tokenA)
      IN  IF t1.err # OK THEN Fail(s, t1.err) ELSE
          Emit(After(t1.ev, Return([t1.st EXCEPT !.status = NOT_ENTERED], swapId)),
               SwapCreated(swapId, sender, tokenA, tokenBOwner, tokenB))

\* createSwap clearing the operator of the counterparty's asset as well
createSwapTouchingCounterparty(s, sender, tokenA, tokenBOwner, tokenB) ==
    IF s.swapPaused THEN Fail(s, SystemPaused)
    ELSE IF s.status = ENTERED THEN Fail(s, Reentrant)
    ELSE IF tokenA = tokenB THEN Fail(s, IdenticalAssets)
    ELSE IF ~exists(s, tokenA) THEN Fail(s, UnknownAsset)
    ELSE IF s.owners[tokenA] # sender THEN Fail(s, NotOwner)
    ELSE IF ~exists(s, tokenB) THEN Fail(s, UnknownAsset)
    ELSE IF s.owners[tokenB] # tokenBOwner THEN Fail(s, CounterpartyMismatch)
    ELSE IF s.tokenApprovals[tokenA] # SwapAddr THEN Fail(s, NotApprovedA)
    ELSE
      LET swapId == s.nextSwapId
          s1 == [s EXCEPT !.status = ENTERED,
                          !.nextSwapId = @ + 1,
                          !.swaps[swapId] =
                              [tokenAOwner |-> sender, tokenA |-> tokenA,
                               tokenBOwner |-> tokenBOwner, tokenB |-> tokenB,
                               executed |-> FALSE]]
          t1 == transferFrom(s1, SwapAddr, sender, SwapAddr, tokenA)
      IN  IF t1.err # OK THEN Fail(s, t1.err) ELSE
          Emit(After(t1.ev, Return([t1.st EXCEPT !.status = NOT_ENTERED,
                                                   !.tokenApprovals[tokenB] = Zero],
                                     swapId)),
               SwapCreated(swapId, sender, tokenA, tokenBOwner, tokenB))

\* createSwap(tokenA, tokenBOwner, tokenB) called by sender
createSwap(s, sender, tokenA, tokenBOwner, tokenB) ==
    IF s.swapPaused THEN Fail(s, SystemPaused)
    ELSE IF s.status = ENTERED THEN Fail(s, Reentrant)
    ELSE IF tokenA = tokenB THEN Fail(s, IdenticalAssets)
    ELSE IF ~exists(s, tokenA) THEN Fail(s, UnknownAsset)
    ELSE IF s.owners[tokenA] # sender THEN Fail(s, NotOwner)
    ELSE IF ~exists(s, tokenB) THEN Fail(s, UnknownAsset)
    ELSE IF s.owners[tokenB] # tokenBOwner THEN Fail(s, CounterpartyMismatch)
    ELSE IF s.tokenApprovals[tokenA] # SwapAddr THEN Fail(s, NotApprovedA)
    ELSE
      LET swapId == s.nextSwapId
          s1 == [s EXCEPT !.status = ENTERED,
                          !.nextSwapId = @ + 1,
                          !.swaps[swapId] =
                              [tokenAOwner |-> sender, tokenA |-> tokenA,
                               tokenBOwner |-> tokenBOwner, tokenB |-> tokenB,
                               executed |-> FALSE]]
          t1 == transferFrom(s1, SwapAddr, sender, SwapAddr, tokenA)
      IN  IF t1.err # OK THEN Fail(s, t1.err) ELSE
          Emit(After(t1.ev, Return([t1.st EXCEPT !.status = NOT_ENTERED], swapId)),
               SwapCreated(swapId, sender, tokenA, tokenBOwner, tokenB))

\* the storages in which createSwap is inside its call of transferFrom: the
\* one it calls the registry in and the one the transfer leaves
createSwapTransfers(s, sender, tokenA, tokenBOwner, tokenB) ==
    LET r == createSwap(s, sender, tokenA, tokenBOwner, tokenB)
        s1 == [s EXCEPT !.status = ENTERED,
                        !.nextSwapId = @ + 1,
                        !.swaps[s.nextSwapId] =
                            [tokenAOwner |-> sender, tokenA |-> tokenA,
                             tokenBOwner |-> tokenBOwner, tokenB |-> tokenB,
                             executed |-> FALSE]]
    IN  IF r.err # OK THEN {}
        ELSE {s1, [r.st EXCEPT !.status = ENTERED]}

\* acceptSwap paying each asset back to the party it came from
acceptSwapNoExchange(s, sender, swapId) ==
    LET swap == s.swaps[swapId]
        e == [s EXCEPT !.status = ENTERED] IN
    IF s.swapPaused THEN Fail(s, SystemPaused)
    ELSE IF s.status = ENTERED THEN Fail(s, Reentrant)
    ELSE IF swap.executed THEN Fail(s, SwapNotPending)
    ELSE IF sender # swap.tokenBOwner THEN Fail(s, NotCounterparty)
    ELSE IF ~exists(s, swap.tokenB) THEN Fail(s, UnknownAsset)
    ELSE IF s.tokenApprovals[swap.tokenB] # SwapAddr THEN Fail(s, NotApprovedB)
    ELSE
      LET t1 == transferFrom(e, SwapAddr, swap.tokenBOwner, SwapAddr, swap.tokenB)
      IN  IF t1.err # OK THEN Fail(s, t1.err) ELSE
      LET t2 == transferFrom(t1.st, SwapAddr, SwapAddr, swap.tokenAOwner, swap.tokenA)
      IN  IF t2.err # OK THEN Fail(s, t2.err) ELSE
      LET t3 == transferFrom(t2.st, SwapAddr, SwapAddr, swap.tokenBOwner, swap.tokenB)
      IN  IF t3.err # OK THEN Fail(s, t3.err) ELSE
      Emit(After(t1.ev \o t2.ev \o t3.ev,
                 Done([t3.st EXCEPT !.swaps[swapId].executed = TRUE,
                                    !.status = NOT_ENTERED])),
           SwapExecuted(swapId, swap.tokenAOwner, swap.tokenBOwner))

\* acceptSwap going on after a transfer that failed
acceptSwapUnchecked(s, sender, swapId) ==
    LET swap == s.swaps[swapId]
        e == [s EXCEPT !.status = ENTERED] IN
    IF s.swapPaused THEN Fail(s, SystemPaused)
    ELSE IF s.status = ENTERED THEN Fail(s, Reentrant)
    ELSE IF swap.executed THEN Fail(s, SwapNotPending)
    ELSE IF sender # swap.tokenBOwner THEN Fail(s, NotCounterparty)
    ELSE IF ~exists(s, swap.tokenB) THEN Fail(s, UnknownAsset)
    ELSE IF s.tokenApprovals[swap.tokenB] # SwapAddr THEN Fail(s, NotApprovedB)
    ELSE
      LET t1 == transferFrom(e, SwapAddr, swap.tokenBOwner, SwapAddr, swap.tokenB)
          t2 == transferFrom(t1.st, SwapAddr, SwapAddr, swap.tokenBOwner, swap.tokenA)
          t3 == transferFrom(t2.st, SwapAddr, SwapAddr, swap.tokenAOwner, swap.tokenB)
      IN
      Emit(After(t1.ev \o t2.ev \o t3.ev,
                 Done([t3.st EXCEPT !.swaps[swapId].executed = TRUE,
                                    !.status = NOT_ENTERED])),
           SwapExecuted(swapId, swap.tokenAOwner, swap.tokenBOwner))

\* acceptSwap without the check of the executed flag
acceptSwapAnyState(s, sender, swapId) ==
    LET swap == s.swaps[swapId]
        e == [s EXCEPT !.status = ENTERED] IN
    IF s.swapPaused THEN Fail(s, SystemPaused)
    ELSE IF s.status = ENTERED THEN Fail(s, Reentrant)
    ELSE IF sender # swap.tokenBOwner THEN Fail(s, NotCounterparty)
    ELSE IF ~exists(s, swap.tokenB) THEN Fail(s, UnknownAsset)
    ELSE IF s.tokenApprovals[swap.tokenB] # SwapAddr THEN Fail(s, NotApprovedB)
    ELSE
      LET t1 == transferFrom(e, SwapAddr, swap.tokenBOwner, SwapAddr, swap.tokenB)
      IN  IF t1.err # OK THEN Fail(s, t1.err) ELSE
      LET t2 == transferFrom(t1.st, SwapAddr, SwapAddr, swap.tokenBOwner, swap.tokenA)
      IN  IF t2.err # OK THEN Fail(s, t2.err) ELSE
      LET t3 == transferFrom(t2.st, SwapAddr, SwapAddr, swap.tokenAOwner, swap.tokenB)
      IN  IF t3.err # OK THEN Fail(s, t3.err) ELSE
      Emit(After(t1.ev \o t2.ev \o t3.ev,
                 Done([t3.st EXCEPT !.swaps[swapId].executed = TRUE,
                                    !.status = NOT_ENTERED])),
           SwapExecuted(swapId, swap.tokenAOwner, swap.tokenBOwner))

\* acceptSwap without the check of the caller
acceptSwapByAnyone(s, sender, swapId) ==
    LET swap == s.swaps[swapId]
        e == [s EXCEPT !.status = ENTERED] IN
    IF s.swapPaused THEN Fail(s, SystemPaused)
    ELSE IF s.status = ENTERED THEN Fail(s, Reentrant)
    ELSE IF swap.executed THEN Fail(s, SwapNotPending)
    ELSE IF ~exists(s, swap.tokenB) THEN Fail(s, UnknownAsset)
    ELSE IF s.tokenApprovals[swap.tokenB] # SwapAddr THEN Fail(s, NotApprovedB)
    ELSE
      LET t1 == transferFrom(e, SwapAddr, swap.tokenBOwner, SwapAddr, swap.tokenB)
      IN  IF t1.err # OK THEN Fail(s, t1.err) ELSE
      LET t2 == transferFrom(t1.st, SwapAddr, SwapAddr, swap.tokenBOwner, swap.tokenA)
      IN  IF t2.err # OK THEN Fail(s, t2.err) ELSE
      LET t3 == transferFrom(t2.st, SwapAddr, SwapAddr, swap.tokenAOwner, swap.tokenB)
      IN  IF t3.err # OK THEN Fail(s, t3.err) ELSE
      Emit(After(t1.ev \o t2.ev \o t3.ev,
                 Done([t3.st EXCEPT !.swaps[swapId].executed = TRUE,
                                    !.status = NOT_ENTERED])),
           SwapExecuted(swapId, swap.tokenAOwner, swap.tokenBOwner))

\* acceptSwap pulling tokenB from whoever holds it now
acceptSwapFromHolder(s, sender, swapId) ==
    LET swap == s.swaps[swapId]
        e == [s EXCEPT !.status = ENTERED] IN
    IF s.swapPaused THEN Fail(s, SystemPaused)
    ELSE IF s.status = ENTERED THEN Fail(s, Reentrant)
    ELSE IF swap.executed THEN Fail(s, SwapNotPending)
    ELSE IF sender # swap.tokenBOwner THEN Fail(s, NotCounterparty)
    ELSE IF ~exists(s, swap.tokenB) THEN Fail(s, UnknownAsset)
    ELSE IF s.tokenApprovals[swap.tokenB] # SwapAddr THEN Fail(s, NotApprovedB)
    ELSE
      LET t1 == transferFrom(e, SwapAddr, e.owners[swap.tokenB], SwapAddr, swap.tokenB)
      IN  IF t1.err # OK THEN Fail(s, t1.err) ELSE
      LET t2 == transferFrom(t1.st, SwapAddr, SwapAddr, swap.tokenBOwner, swap.tokenA)
      IN  IF t2.err # OK THEN Fail(s, t2.err) ELSE
      LET t3 == transferFrom(t2.st, SwapAddr, SwapAddr, swap.tokenAOwner, swap.tokenB)
      IN  IF t3.err # OK THEN Fail(s, t3.err) ELSE
      Emit(After(t1.ev \o t2.ev \o t3.ev,
                 Done([t3.st EXCEPT !.swaps[swapId].executed = TRUE,
                                    !.status = NOT_ENTERED])),
           SwapExecuted(swapId, swap.tokenAOwner, swap.tokenBOwner))

\* acceptSwap emitting SwapExecuted without setting the executed flag
acceptSwapUnmarked(s, sender, swapId) ==
    LET swap == s.swaps[swapId]
        e == [s EXCEPT !.status = ENTERED] IN
    IF s.swapPaused THEN Fail(s, SystemPaused)
    ELSE IF s.status = ENTERED THEN Fail(s, Reentrant)
    ELSE IF swap.executed THEN Fail(s, SwapNotPending)
    ELSE IF sender # swap.tokenBOwner THEN Fail(s, NotCounterparty)
    ELSE IF ~exists(s, swap.tokenB) THEN Fail(s, UnknownAsset)
    ELSE IF s.tokenApprovals[swap.tokenB] # SwapAddr THEN Fail(s, NotApprovedB)
    ELSE
      LET t1 == transferFrom(e, SwapAddr, swap.tokenBOwner, SwapAddr, swap.tokenB)
      IN  IF t1.err # OK THEN Fail(s, t1.err) ELSE
      LET t2 == transferFrom(t1.st, SwapAddr, SwapAddr, swap.tokenBOwner, swap.tokenA)
      IN  IF t2.err # OK THEN Fail(s, t2.err) ELSE
      LET t3 == transferFrom(t2.st, SwapAddr, SwapAddr, swap.tokenAOwner, swap.tokenB)
      IN  IF t3.err # OK THEN Fail(s, t3.err) ELSE
      Emit(After(t1.ev \o t2.ev \o t3.ev,
                 Done([t3.st EXCEPT !.status = NOT_ENTERED])),
           SwapExecuted(swapId, swap.tokenAOwner, swap.tokenBOwner))

\* acceptSwap(swapId) called by sender
acceptSwap(s, sender, swapId) ==
    LET swap == s.swaps[swapId]
        e == [s EXCEPT !.status = ENTERED] IN
    IF s.swapPaused THEN Fail(s, SystemPaused)
    ELSE IF s.status = ENTERED THEN Fail(s, Reentrant)
    ELSE IF swap.executed THEN Fail(s, SwapNotPending)
    ELSE IF sender # swap.tokenBOwner THEN Fail(s, NotCounterparty)
    ELSE IF ~exists(s, swap.tokenB) THEN Fail(s, UnknownAsset)
    ELSE IF s.tokenApprovals[swap.tokenB] # SwapAddr THEN Fail(s, NotApprovedB)
    ELSE
      LET t1 == transferFrom(e, SwapAddr, swap.tokenBOwner, SwapAddr, swap.tokenB)
      IN  IF t1.err # OK THEN Fail(s, t1.err) ELSE
      LET t2 == transferFrom(t1.st, SwapAddr, SwapAddr, swap.tokenBOwner, swap.tokenA)
      IN  IF t2.err # OK THEN Fail(s, t2.err) ELSE
      LET t3 == transferFrom(t2.st, SwapAddr, SwapAddr, swap.tokenAOwner, swap.tokenB)
      IN  IF t3.err # OK THEN Fail(s, t3.err) ELSE
      Emit(After(t1.ev \o t2.ev \o t3.ev,
                 Done([t3.st EXCEPT !.swaps[swapId].executed = TRUE,
                                    !.status = NOT_ENTERED])),
           SwapExecuted(swapId, swap.tokenAOwner, swap.tokenBOwner))

\* acceptSwap's storages inside its transfers, had it set the executed flag
\* before the first of them
acceptSwapTransfersFlagFirst(s, sender, swapId) ==
    LET swap == s.swaps[swapId]
        e == [s EXCEPT !.status = ENTERED, !.swaps[swapId].executed = TRUE]
        t1 == transferFrom(e, SwapAddr, swap.tokenBOwner, SwapAddr, swap.tokenB)
        t2 == transferFrom(t1.st, SwapAddr, SwapAddr, swap.tokenBOwner, swap.tokenA)
        t3 == transferFrom(t2.st, SwapAddr, SwapAddr, swap.tokenAOwner, swap.tokenB)
    IN  IF \/ s.swapPaused
           \/ s.status = ENTERED
           \/ swap.executed
           \/ sender # swap.tokenBOwner
           \/ ~exists(s, swap.tokenB)
           \/ s.tokenApprovals[swap.tokenB] # SwapAddr
        THEN {}
        ELSE IF t1.err # OK THEN {e}
        ELSE IF t2.err # OK THEN {e, t1.st}
        ELSE IF t3.err # OK THEN {e, t1.st, t2.st}
        ELSE {e, t1.st, t2.st, t3.st}

\* the storages in which acceptSwap is inside one of its calls of
\* transferFrom: the one it calls the registry in first and the one each
\* transfer leaves
acceptSwapTransfers(s, sender, swapId) ==
    LET swap == s.swaps[swapId]
        e == [s EXCEPT !.status = ENTERED]
        t1 == transferFrom(e, SwapAddr, swap.tokenBOwner, SwapAddr, swap.tokenB)
        t2 == transferFrom(t1.st, SwapAddr, SwapAddr, swap.tokenBOwner, swap.tokenA)
        t3 == transferFrom(t2.st, SwapAddr, SwapAddr, swap.tokenAOwner, swap.tokenB)
    IN  IF \/ s.swapPaused
           \/ s.status = ENTERED
           \/ swap.executed
           \/ sender # swap.tokenBOwner
           \/ ~exists(s, swap.tokenB)
           \/ s.tokenApprovals[swap.tokenB] # SwapAddr
        THEN {}
        ELSE IF t1.err # OK THEN {e}
        ELSE IF t2.err # OK THEN {e, t1.st}
        ELSE IF t3.err # OK THEN {e, t1.st, t2.st}
        ELSE {e, t1.st, t2.st, t3.st}

\* cancelSwap without the check of the executed flag
cancelSwapAnyState(s, sender, swapId) ==
    LET swap == s.swaps[swapId]
        e == [s EXCEPT !.status = ENTERED] IN
    IF s.swapPaused THEN Fail(s, SystemPaused)
    ELSE IF s.status = ENTERED THEN Fail(s, Reentrant)
    ELSE IF sender # swap.tokenAOwner THEN Fail(s, NotProposer)
    ELSE
      LET t1 == transferFrom(e, SwapAddr, SwapAddr, swap.tokenAOwner, swap.tokenA)
      IN  IF t1.err # OK THEN Fail(s, t1.err) ELSE
      LET s2 == [t1.st EXCEPT !.swaps[swapId] = EmptySwap,
                              !.status = NOT_ENTERED]
      IN  Emit(After(t1.ev, Done(s2)),
               SwapCancelled(swapId, s2.swaps[swapId].tokenAOwner))

\* cancelSwap without the check of the caller
cancelSwapByAnyone(s, sender, swapId) ==
    LET swap == s.swaps[swapId]
        e == [s EXCEPT !.status = ENTERED] IN
    IF s.swapPaused THEN Fail(s, SystemPaused)
    ELSE IF s.status = ENTERED THEN Fail(s, Reentrant)
    ELSE IF swap.executed THEN Fail(s, SwapNotPending)
    ELSE
      LET t1 == transferFrom(e, SwapAddr, SwapAddr, swap.tokenAOwner, swap.tokenA)
      IN  IF t1.err # OK THEN Fail(s, t1.err) ELSE
      LET s2 == [t1.st EXCEPT !.swaps[swapId] = EmptySwap,
                              !.status = NOT_ENTERED]
      IN  Emit(After(t1.ev, Done(s2)),
               SwapCancelled(swapId, s2.swaps[swapId].tokenAOwner))

\* cancelSwap handing the escrowed asset to the counterparty
cancelSwapToCounterparty(s, sender, swapId) ==
    LET swap == s.swaps[swapId]
        e == [s EXCEPT !.status = ENTERED] IN
    IF s.swapPaused THEN Fail(s, SystemPaused)
    ELSE IF s.status = ENTERED THEN Fail(s, Reentrant)
    ELSE IF swap.executed THEN Fail(s, SwapNotPending)
    ELSE IF sender # swap.tokenAOwner THEN Fail(s, NotProposer)
    ELSE
      LET t1 == transferFrom(e, SwapAddr, SwapAddr, swap.tokenBOwner, swap.tokenA)
      IN  IF t1.err # OK THEN Fail(s, t1.err) ELSE
      LET s2 == [t1.st EXCEPT !.swaps[swapId] = EmptySwap,
                              !.status = NOT_ENTERED]
      IN  Emit(After(t1.ev, Done(s2)),
               SwapCancelled(swapId, s2.swaps[swapId].tokenAOwner))

\* cancelSwap open to the counterparty as well as the proposer
cancelSwapByEitherParty(s, sender, swapId) ==
    LET swap == s.swaps[swapId]
        e == [s EXCEPT !.status = ENTERED] IN
    IF s.swapPaused THEN Fail(s, SystemPaused)
    ELSE IF s.status = ENTERED THEN Fail(s, Reentrant)
    ELSE IF swap.executed THEN Fail(s, SwapNotPending)
    ELSE IF sender \notin {swap.tokenAOwner, swap.tokenBOwner} THEN Fail(s, NotProposer)
    ELSE
      LET t1 == transferFrom(e, SwapAddr, SwapAddr, swap.tokenAOwner, swap.tokenA)
      IN  IF t1.err # OK THEN Fail(s, t1.err) ELSE
      LET s2 == [t1.st EXCEPT !.swaps[swapId] = EmptySwap,
                              !.status = NOT_ENTERED]
      IN  Emit(After(t1.ev, Done(s2)),
               SwapCancelled(swapId, s2.swaps[swapId].tokenAOwner))

\* cancelSwap without whenNotPaused
cancelSwapWhilePaused(s, sender, swapId) ==
    LET swap == s.swaps[swapId]
        e == [s EXCEPT !.status = ENTERED] IN
    IF s.status = ENTERED THEN Fail(s, Reentrant)
    ELSE IF swap.executed THEN Fail(s, SwapNotPending)
    ELSE IF sender # swap.tokenAOwner THEN Fail(s, NotProposer)
    ELSE
      LET t1 == transferFrom(e, SwapAddr, SwapAddr, swap.tokenAOwner, swap.tokenA)
      IN  IF t1.err # OK THEN Fail(s, t1.err) ELSE
      LET s2 == [t1.st EXCEPT !.swaps[swapId] = EmptySwap,
                              !.status = NOT_ENTERED]
      IN  Emit(After(t1.ev, Done(s2)),
               SwapCancelled(swapId, s2.swaps[swapId].tokenAOwner))

\* cancelSwap without nonReentrant
cancelSwapReentrant(s, sender, swapId) ==
    LET swap == s.swaps[swapId]
        e == [s EXCEPT !.status = ENTERED] IN
    IF s.swapPaused THEN Fail(s, SystemPaused)
    ELSE IF swap.executed THEN Fail(s, SwapNotPending)
    ELSE IF sender # swap.tokenAOwner THEN Fail(s, NotProposer)
    ELSE
      LET t1 == transferFrom(e, SwapAddr, SwapAddr, swap.tokenAOwner, swap.tokenA)
      IN  IF t1.err # OK THEN Fail(s, t1.err) ELSE
      LET s2 == [t1.st EXCEPT !.swaps[swapId] = EmptySwap,
                              !.status = NOT_ENTERED]
      IN  Emit(After(t1.ev, Done(s2)),
               SwapCancelled(swapId, s2.swaps[swapId].tokenAOwner))

\* cancelSwap checking the caller after the transfer
cancelSwapTransferFirst(s, sender, swapId) ==
    LET swap == s.swaps[swapId]
        e == [s EXCEPT !.status = ENTERED] IN
    IF s.swapPaused THEN Fail(s, SystemPaused)
    ELSE IF s.status = ENTERED THEN Fail(s, Reentrant)
    ELSE IF swap.executed THEN Fail(s, SwapNotPending)
    ELSE
      LET t1 == transferFrom(e, SwapAddr, SwapAddr, swap.tokenAOwner, swap.tokenA)
      IN  IF t1.err # OK THEN Fail(s, t1.err) ELSE
      IF sender # swap.tokenAOwner THEN Fail(s, NotProposer) ELSE
      LET s2 == [t1.st EXCEPT !.swaps[swapId] = EmptySwap,
                              !.status = NOT_ENTERED]
      IN  Emit(After(t1.ev, Done(s2)),
               SwapCancelled(swapId, s2.swaps[swapId].tokenAOwner))

\* cancelSwap giving the id of the erased swap back to the counter
cancelSwapFreesId(s, sender, swapId) ==
    LET swap == s.swaps[swapId]
        e == [s EXCEPT !.status = ENTERED] IN
    IF s.swapPaused THEN Fail(s, SystemPaused)
    ELSE IF s.status = ENTERED THEN Fail(s, Reentrant)
    ELSE IF swap.executed THEN Fail(s, SwapNotPending)
    ELSE IF sender # swap.tokenAOwner THEN Fail(s, NotProposer)
    ELSE
      LET t1 == transferFrom(e, SwapAddr, SwapAddr, swap.tokenAOwner, swap.tokenA)
      IN  IF t1.err # OK THEN Fail(s, t1.err) ELSE
      LET s2 == [t1.st EXCEPT !.swaps[swapId] = EmptySwap,
                              !.nextSwapId = swapId,
                              !.status = NOT_ENTERED]
      IN  Emit(After(t1.ev, Done(s2)),
               SwapCancelled(swapId, s2.swaps[swapId].tokenAOwner))

\* cancelSwap emitting no SwapCancelled
cancelSwapSilent(s, sender, swapId) ==
    LET swap == s.swaps[swapId]
        e == [s EXCEPT !.status = ENTERED] IN
    IF s.swapPaused THEN Fail(s, SystemPaused)
    ELSE IF s.status = ENTERED THEN Fail(s, Reentrant)
    ELSE IF swap.executed THEN Fail(s, SwapNotPending)
    ELSE IF sender # swap.tokenAOwner THEN Fail(s, NotProposer)
    ELSE
      LET t1 == transferFrom(e, SwapAddr, SwapAddr, swap.tokenAOwner, swap.tokenA)
      IN  IF t1.err # OK THEN Fail(s, t1.err) ELSE
      LET s2 == [t1.st EXCEPT !.swaps[swapId] = EmptySwap,
                              !.status = NOT_ENTERED]
      IN  After(t1.ev, Done(s2))

\* cancelSwap returning the asset and keeping the record
cancelSwapKeepingRecord(s, sender, swapId) ==
    LET swap == s.swaps[swapId]
        e == [s EXCEPT !.status = ENTERED] IN
    IF s.swapPaused THEN Fail(s, SystemPaused)
    ELSE IF s.status = ENTERED THEN Fail(s, Reentrant)
    ELSE IF swap.executed THEN Fail(s, SwapNotPending)
    ELSE IF sender # swap.tokenAOwner THEN Fail(s, NotProposer)
    ELSE
      LET t1 == transferFrom(e, SwapAddr, SwapAddr, swap.tokenAOwner, swap.tokenA)
      IN  IF t1.err # OK THEN Fail(s, t1.err) ELSE
      LET s2 == [t1.st EXCEPT !.status = NOT_ENTERED]
      IN  Emit(After(t1.ev, Done(s2)),
               SwapCancelled(swapId, s2.swaps[swapId].tokenAOwner))

\* cancelSwap asking for an approval of the escrowed asset
cancelSwapNeedingApproval(s, sender, swapId) ==
    LET swap == s.swaps[swapId]
        e == [s EXCEPT !.status = ENTERED] IN
    IF s.swapPaused THEN Fail(s, SystemPaused)
    ELSE IF s.status = ENTERED THEN Fail(s, Reentrant)
    ELSE IF swap.executed THEN Fail(s, SwapNotPending)
    ELSE IF sender # swap.tokenAOwner THEN Fail(s, NotProposer)
    ELSE IF ~exists(s, swap.tokenA) THEN Fail(s, UnknownAsset)
    ELSE IF s.tokenApprovals[swap.tokenA] # SwapAddr THEN Fail(s, NotApprovedA)
    ELSE
      LET t1 == transferFrom(e, SwapAddr, SwapAddr, swap.tokenAOwner, swap.tokenA)
      IN  IF t1.err # OK THEN Fail(s, t1.err) ELSE
      LET s2 == [t1.st EXCEPT !.swaps[swapId] = EmptySwap,
                              !.status = NOT_ENTERED]
      IN  Emit(After(t1.ev, Done(s2)),
               SwapCancelled(swapId, s2.swaps[swapId].tokenAOwner))

\* cancelSwap open to the coordinator's owner as well, who gets the asset
cancelSwapByAdmin(s, sender, swapId) ==
    LET swap == s.swaps[swapId]
        e == [s EXCEPT !.status = ENTERED] IN
    IF s.swapPaused THEN Fail(s, SystemPaused)
    ELSE IF s.status = ENTERED THEN Fail(s, Reentrant)
    ELSE IF swap.executed THEN Fail(s, SwapNotPending)
    ELSE IF sender # swap.tokenAOwner /\ (sender # s.swapOwner \/ swap = EmptySwap)
         THEN Fail(s, NotProposer)
    ELSE
      LET t1 == transferFrom(e, SwapAddr, SwapAddr, sender, swap.tokenA)
      IN  IF t1.err # OK THEN Fail(s, t1.err) ELSE
      LET s2 == [t1.st EXCEPT !.swaps[swapId] = EmptySwap,
                              !.status = NOT_ENTERED]
      IN  Emit(After(t1.ev, Done(s2)),
               SwapCancelled(swapId, s2.swaps[swapId].tokenAOwner))

\* cancelSwap(swapId) called by sender
cancelSwap(s, sender, swapId) ==
    LET swap == s.swaps[swapId]
        e == [s EXCEPT !.status = ENTERED] IN
    IF s.swapPaused THEN Fail(s, SystemPaused)
    ELSE IF s.status = ENTERED THEN Fail(s, Reentrant)
    ELSE IF swap.executed THEN Fail(s, SwapNotPending)
    ELSE IF sender # swap.tokenAOwner THEN Fail(s, NotProposer)
    ELSE
      LET t1 == transferFrom(e, SwapAddr, SwapAddr, swap.tokenAOwner, swap.tokenA)
      IN  IF t1.err # OK THEN Fail(s, t1.err) ELSE
      LET s2 == [t1.st EXCEPT !.swaps[swapId] = EmptySwap,
                              !.status = NOT_ENTERED]
      IN  Emit(After(t1.ev, Done(s2)),
               SwapCancelled(swapId, s2.swaps[swapId].tokenAOwner))

\* the storages in which cancelSwap is inside its call of transferFrom
cancelSwapTransfers(s, sender, swapId) ==
    LET swap == s.swaps[swapId]
        e == [s EXCEPT !.status = ENTERED]
        t1 == transferFrom(e, SwapAddr, SwapAddr, swap.tokenAOwner, swap.tokenA)
    IN  IF \/ s.swapPaused
           \/ s.status = ENTERED
           \/ swap.executed
           \/ sender # swap.tokenAOwner
        THEN {}
        ELSE IF t1.err # OK THEN {e}
        ELSE {e, t1.st}

\* pause() open to every account
swapPauseByAnyone(s, sender) ==
    IF s.swapPaused THEN Fail(s, SystemPaused)
    ELSE Emit(Done([s EXCEPT !.swapPaused = TRUE]), Paused("PokemonSwap", sender))

\* pause() called by sender: onlyOwner, _pause (whenNotPaused)
swapPause(s, sender) ==
    IF sender # s.swapOwner THEN Fail(s, NotAdmin)
    ELSE IF s.swapPaused THEN Fail(s, SystemPaused)
    ELSE Emit(Done([s EXCEPT !.swapPaused = TRUE]), Paused("PokemonSwap", sender))

\* unpause() starting the swap ids again
swapUnpauseResetting(s, sender) ==
    IF sender # s.swapOwner THEN Fail(s, NotAdmin)
    ELSE IF ~s.swapPaused THEN Fail(s, NotPaused)
    ELSE Emit(Done([s EXCEPT !.swapPaused = FALSE, !.nextSwapId = 1]),
              Unpaused("PokemonSwap", sender))

\* unpause() called by sender: onlyOwner, _unpause (whenPaused)
swapUnpause(s, sender) ==
    IF sender # s.swapOwner THEN Fail(s, NotAdmin)
    ELSE IF ~s.swapPaused THEN Fail(s, NotPaused)
    ELSE Emit(Done([s EXCEPT !.swapPaused = FALSE]), Unpaused("PokemonSwap", sender))

\* Ownable.transferOwnership(newOwner) of PokemonSwap called by sender
swapTransferOwnership(s, sender, newOwner) ==
    IF sender # s.swapOwner THEN Fail(s, NotAdmin)
    ELSE IF newOwner = Zero THEN Fail(s, NewOwnerZero)
    ELSE Emit(Done([s EXCEPT !.swapOwner = newOwner]),
              OwnershipTransferred(s.swapOwner, newOwner))

\* Ownable.renounceOwnership() of PokemonSwap called by sender
swapRenounceOwnership(s, sender) ==
    IF sender # s.swapOwner THEN Fail(s, NotAdmin)
    ELSE Emit(Done([s EXCEPT !.swapOwner = Zero]),
              OwnershipTransferred(s.swapOwner, Zero))

\* ---------------------------------------------------------------- actions
\* One transaction per step.  A call that returns commits the storage it
\* leaves; a call that reverts leaves the storage as it was and is no step.
CommitStorage(r) ==
    /\ owners' = r.st.owners
    /\ tokenApprovals' = r.st.tokenApprovals
    /\ operatorApprovals' = r.st.operatorApprovals
    /\ tokenURIs' = r.st.tokenURIs
    /\ nextTokenId' = r.st.nextTokenId
    /\ cardPaused' = r.st.cardPaused
    /\ cardOwner' = r.st.cardOwner
    /\ swaps' = r.st.swaps
    /\ nextSwapId' = r.st.nextSwapId
    /\ swapPaused' = r.st.swapPaused
    /\ swapOwner' = r.st.swapOwner
    /\ status' = r.st.status
    /\ UNCHANGED <<viewVars, walletVars>>

\* the step of a call followed without its events
Commit(r) ==
    /\ CommitStorage(r)
    /\ log' = log

\* the events the clients query: Transfer of the registry and the three
\* events of the coordinator
IsFact(e) == e.name \in {"Transfer", "SwapCreated", "SwapExecuted", "SwapCancelled"}

\* the step of a call with the events it emits appended to the log
CommitLogged(r) ==
    /\ Len(log) + Len(SelectSeq(r.ev, IsFact)) <= MaxLog
    /\ CommitStorage(r)
    /\ log' = log \o SelectSeq(r.ev, IsFact)

\* ------------------------------------------------------------ the pages
\* no address (null in the hooks)
Null == "null"

\* useWallet.ts:32-40, the state of the hook before any connection
Disconnected == [address |-> Null, isConnected |-> FALSE, isConnecting |-> FALSE]

\* the pages as first rendered: empty lists, nothing delivered, no wallet
\* connected, nothing stored in the browser, the mount effects still to run
InitClient ==
    /\ tokens = <<>>
    /\ swapList = <<>>
    /\ delivered = 0
    /\ creationBlock = 0
    /\ walletState = Disconnected
    /\ manuallyDisconnected = FALSE
    /\ localStorage = FALSE
    /\ listening = FALSE
    /\ effectDue = "mount"
    /\ calls = {}
    /\ accounts = <<>>

Init ==
    /\ owners = [t \in Tokens |-> Zero]
    /\ tokenApprovals = [t \in Tokens |-> Zero]
    /\ operatorApprovals = {}
    /\ tokenURIs = [t \in Tokens |-> ""]
    /\ nextTokenId = 1
    /\ cardPaused = FALSE
    /\ cardOwner = Deployer
    /\ swaps = [i \in SwapIds |-> EmptySwap]
    /\ nextSwapId = 1
    /\ swapPaused = FALSE
    /\ swapOwner = Deployer
    /\ status = NOT_ENTERED
    /\ log = <<>>
    /\ InitClient

Mint ==
    \E c \in Users, to \in MintTo, u \in Uris :
        LET r == mint(Storage, c, to, u)
        IN  /\ nextTokenId <= MaxTokens
            /\ r.err = OK
            /\ Commit(r)

Approve ==
    \E c \in Users, to \in ApproveTo, id \in Tokens :
        LET r == approve(Storage, c, to, id)
        IN  /\ r.err = OK
            /\ Commit(r)

SetApprovalForAll ==
    \E c \in ForAllOwners, o \in ForAllOperators, b \in BOOLEAN :
        LET r == setApprovalForAll(Storage, c, o, b)
        IN  /\ r.err = OK
            /\ Commit(r)

TransferFrom ==
    \E c \in Users, id \in Tokens, to \in Address :
      \E from \in {c, owners[id]} :
        LET r == transferFrom(Storage, c, from, to, id)
        IN  /\ r.err = OK
            /\ Commit(r)

CardPause ==
    \E c \in Users :
        LET r == cardPause(Storage, c)
        IN  /\ r.err = OK
            /\ Commit(r)

CardUnpause ==
    \E c \in Users :
        LET r == cardUnpause(Storage, c)
        IN  /\ r.err = OK
            /\ Commit(r)

CreateSwap ==
    \E c \in Users, tokenA \in Tokens, tokenBOwner \in Address, tokenB \in Tokens :
        LET r == createSwap(Storage, c, tokenA, tokenBOwner, tokenB)
        IN  /\ nextSwapId <= MaxSwaps
            /\ r.err = OK
            /\ Commit(r)

AcceptSwap ==
    \E c \in Users, id \in SwapIds :
        LET r == acceptSwap(Storage, c, id)
        IN  /\ r.err = OK
            /\ Commit(r)

CancelSwap ==
    \E c \in Users, id \in SwapIds :
        LET r == cancelSwap(Storage, c, id)
        IN  /\ r.err = OK
            /\ Commit(r)

SwapPause ==
    \E c \in Users :
        LET r == swapPause(Storage, c)
        IN  /\ r.err = OK
            /\ Commit(r)

SwapUnpause ==
    \E c \in Users :
        LET r == swapUnpause(Storage, c)
        IN  /\ r.err = OK
            /\ Commit(r)

Next ==
    \/ Mint
    \/ Approve
    \/ SetApprovalForAll
    \/ TransferFrom
    \/ CardPause
    \/ CardUnpause
    \/ CreateSwap
    \/ AcceptSwap
    \/ CancelSwap
    \/ SwapPause
    \/ SwapUnpause

Spec == Init /\ [][Next]_vars

\* the coordinator with the two calls Ownable adds to it, under which the
\* owner is no longer the deployer; the transfers between users, the
\* approvals for all and the pause of the registry are left out
TransferOwnership ==
    \E c \in Users, newOwner \in Users \cup {Zero} :
        LET r == swapTransferOwnership(Storage, c, newOwner)
        IN  /\ r.err = OK
            /\ Commit(r)

RenounceOwnership ==
    \E c \in Users :
        LET r == swapRenounceOwnership(Storage, c)
        IN  /\ r.err = OK
            /\ Commit(r)

CardTransferOwnership ==
    \E c \in Users, newOwner \in Users \cup {Zero} :
        LET r == cardTransferOwnership(Storage, c, newOwner)
        IN  /\ r.err = OK
            /\ Commit(r)

CardRenounceOwnership ==
    \E c \in Users :
        LET r == cardRenounceOwnership(Storage, c)
        IN  /\ r.err = OK
            /\ Commit(r)

NextOwnable ==
    \/ Mint
    \/ Approve
    \/ CreateSwap
    \/ AcceptSwap
    \/ CancelSwap
    \/ SwapPause
    \/ SwapUnpause
    \/ TransferOwnership
    \/ RenounceOwnership
    \/ CardPause
    \/ CardUnpause
    \/ CardTransferOwnership
    \/ CardRenounceOwnership

SpecOwnable == Init /\ [][NextOwnable]_vars

\* ------------------------------------------------------ with the event log
\* the accounts assets are minted and transferred to under SpecLog
LogUsers == {"A", "B"}

LogMint ==
    \E c \in Users, to \in LogUsers, u \in Uris :
        LET r == mint(Storage, c, to, u)
        IN  /\ nextTokenId <= MaxTokens
            /\ r.err = OK
            /\ CommitLogged(r)

LogApprove ==
    \E c \in Users, id \in Tokens :
        LET r == approve(Storage, c, SwapAddr, id)
        IN  /\ r.err = OK
            /\ CommitLogged(r)

LogTransferFrom ==
    \E c \in Users, id \in Tokens, to \in LogUsers :
        LET r == transferFrom(Storage, c, c, to, id)
        IN  /\ to # c
            /\ r.err = OK
            /\ CommitLogged(r)

LogCreateSwap ==
    \E c \in Users, tokenA \in Tokens, tokenBOwner \in Address, tokenB \in Tokens :
        LET r == createSwap(Storage, c, tokenA, tokenBOwner, tokenB)
        IN  /\ nextSwapId <= MaxSwaps
            /\ r.err = OK
            /\ CommitLogged(r)

LogAcceptSwap ==
    \E c \in Users, id \in SwapIds :
        LET r == acceptSwap(Storage, c, id)
        IN  /\ r.err = OK
            /\ CommitLogged(r)

LogCancelSwap ==
    \E c \in Users, id \in SwapIds :
        LET r == cancelSwap(Storage, c, id)
        IN  /\ r.err = OK
            /\ CommitLogged(r)

NextLog ==
    \/ LogMint
    \/ LogApprove
    \/ LogTransferFrom
    \/ LogCreateSwap
    \/ LogAcceptSwap
    \/ LogCancelSwap

SpecLog == Init /\ [][NextLog]_vars

\* ------------------------------------------------ with a third asset
TokensWide == 1..MaxTokensWide

InitWide ==
    /\ owners = [t \in TokensWide |-> Zero]
    /\ tokenApprovals = [t \in TokensWide |-> Zero]
    /\ operatorApprovals = {}
    /\ tokenURIs = [t \in TokensWide |-> ""]
    /\ nextTokenId = 1
    /\ cardPaused = FALSE
    /\ cardOwner = Deployer
    /\ swaps = [i \in SwapIds |-> EmptySwap]
    /\ nextSwapId = 1
    /\ swapPaused = FALSE
    /\ swapOwner = Deployer
    /\ status = NOT_ENTERED
    /\ log = <<>>
    /\ InitClient

WideMint ==
    \E c \in Users, to \in LogUsers, u \in Uris :
        LET r == mint(Storage, c, to, u)
        IN  /\ nextTokenId <= MaxTokensWide
            /\ r.err = OK
            /\ Commit(r)

WideApprove ==
    \E c \in Users, id \in TokensWide :
        LET r == approve(Storage, c, SwapAddr, id)
        IN  /\ r.err = OK
            /\ Commit(r)

WideTransferFrom ==
    \E c \in Users, id \in TokensWide, to \in LogUsers :
        LET r == transferFrom(Storage, c, c, to, id)
        IN  /\ to # c
            /\ r.err = OK
            /\ Commit(r)

WideCreateSwap ==
    \E c \in Users, tokenA \in TokensWide, tokenBOwner \in Address,
       tokenB \in TokensWide :
        LET r == createSwap(Storage, c, tokenA, tokenBOwner, tokenB)
        IN  /\ nextSwapId <= MaxSwaps
            /\ r.err = OK
            /\ Commit(r)

WideAcceptSwap ==
    \E c \in Users, id \in SwapIds :
        LET r == acceptSwap(Storage, c, id)
        IN  /\ r.err = OK
            /\ Commit(r)

WideCancelSwap ==
    \E c \in Users, id \in SwapIds :
        LET r == cancelSwap(Storage, c, id)
        IN  /\ r.err = OK
            /\ Commit(r)

NextWide ==
    \/ WideMint
    \/ WideApprove
    \/ WideTransferFrom
    \/ WideCreateSwap
    \/ WideAcceptSwap
    \/ WideCancelSwap

SpecWide == InitWide /\ [][NextWide]_vars

\* ------------------------------------------------- the design's vocabulary
\* the state of a swap id, read from the coordinator's storage
NoSwap == "none"
Pending == "Pending"
Executed == "Executed"
Cancelled == "Cancelled"

State(s, id) ==
    IF id < 1 \/ id >= s.nextSwapId THEN NoSwap
    ELSE IF s.swaps[id].executed THEN Executed
    ELSE IF s.swaps[id] = EmptySwap THEN Cancelled
    ELSE Pending

\* an account that can hold an asset: a user or the coordinator
Holders == Users \cup {SwapAddr}

\* ------------------------------------------------------------------ claims

\* C1: a successful acceptSwap(swapId) is a call by the recorded counterparty,
\* and it leaves the proposer's asset (tokenA) with the caller, the
\* counterparty's asset (tokenB) with the proposer, and the swap Executed.
C1_AcceptSwapExchanges ==
    \A c \in Users, id \in SwapIds :
        LET r == acceptSwap(Storage, c, id)
            swap == swaps[id]
        IN  r.err = OK =>
              /\ c = swap.tokenBOwner
              /\ r.st.owners[swap.tokenA] = c
              /\ r.st.owners[swap.tokenB] = swap.tokenAOwner
              /\ r.st.swaps[id].executed
              /\ State(r.st, id) = Executed

\* a swap between two different accounts has been accepted and the two assets
\* are with their new holders
C1_Witness ==
    \E id \in SwapIds :
        /\ State(Storage, id) = Executed
        /\ swaps[id].tokenAOwner # swaps[id].tokenBOwner
        /\ owners[swaps[id].tokenA] = swaps[id].tokenBOwner
        /\ owners[swaps[id].tokenB] = swaps[id].tokenAOwner

\* C2: acceptSwap is atomic: a call either exchanges both assets and leaves
\* the swap Executed, or leaves the whole storage (holders, operators, swap
\* records) as it was; no call moves one asset only.
C2_AcceptSwapAtomic ==
    \A c \in Users, id \in SwapIds :
        LET r == acceptSwap(Storage, c, id)
            swap == swaps[id]
        IN  \/ /\ r.err = OK
               /\ r.st.owners[swap.tokenA] = swap.tokenBOwner
               /\ r.st.owners[swap.tokenB] = swap.tokenAOwner
               /\ r.st.swaps[id].executed
            \/ /\ r.err # OK
               /\ r.st = Storage

\* the counterparty's asset has moved to a third account that approved the
\* coordinator: the counterparty's acceptSwap gets as far as the pull into
\* custody, which fails
C2_Witness ==
    \E id \in SwapIds :
        /\ State(Storage, id) = Pending
        /\ ~swapPaused
        /\ owners[swaps[id].tokenB] # swaps[id].tokenBOwner
        /\ tokenApprovals[swaps[id].tokenB] = SwapAddr
        /\ owners[swaps[id].tokenA] = SwapAddr
        /\ acceptSwap(Storage, swaps[id].tokenBOwner, id).err = OwnershipChanged

\* C3: every asset created so far has exactly one holder, a user or the
\* coordinator, and an id not yet created has none.
C3_OneHolder ==
    \A t \in Tokens :
        /\ t < nextTokenId => owners[t] \in Holders
        /\ t >= nextTokenId => owners[t] = Zero

\* all assets are created and one of them is in the coordinator's custody
C3_Witness ==
    /\ nextTokenId = MaxTokens + 1
    /\ \E t \in Tokens : owners[t] = SwapAddr
    /\ \E t \in Tokens : owners[t] \in Users

\* C4: a swap id's state moves only from none to Pending (by a createSwap),
\* from Pending to Executed (by an acceptSwap on it) and from Pending to
\* Cancelled (by a cancelSwap on it); no step leaves Executed or Cancelled,
\* makes such an id Pending again, or skips Pending.
C4_SwapStateMachine ==
    [][(swaps' # swaps \/ nextSwapId' # nextSwapId) => \A id \in SwapIds :
        LET p == State(Storage, id)
            q == State(Storage', id)
        IN  \/ p = q
            \/ /\ p = NoSwap
               /\ q = Pending
               /\ \E c \in Users, tokenA \in Tokens, o \in Address, tokenB \in Tokens :
                    LET r == createSwap(Storage, c, tokenA, o, tokenB)
                    IN  r.err = OK /\ r.ret = id /\ Storage' = r.st
            \/ /\ p = Pending
               /\ q = Executed
               /\ \E c \in Users :
                    LET r == acceptSwap(Storage, c, id)
                    IN  r.err = OK /\ Storage' = r.st
            \/ /\ p = Pending
               /\ q = Cancelled
               /\ \E c \in Users :
                    LET r == cancelSwap(Storage, c, id)
                    IN  r.err = OK /\ Storage' = r.st]_vars

\* one swap has been executed and another one cancelled
C4_Witness ==
    \E i \in SwapIds, j \in SwapIds :
        State(Storage, i) = Executed /\ State(Storage, j) = Cancelled

\* C5: a successful createSwap(tokenA, tokenBOwner, tokenB) returns the next
\* swap id, leaves tokenA held by the coordinator, and stores under that id a
\* Pending swap with the caller as proposer and the given counterparty and
\* asset ids.
C5_CreateSwapEscrows ==
    nextSwapId <= MaxSwaps =>
      \A c \in Users, tokenA \in Tokens, o \in Address, tokenB \in Tokens :
        LET r == createSwap(Storage, c, tokenA, o, tokenB)
        IN  r.err = OK =>
              /\ r.ret = nextSwapId
              /\ r.st.owners[tokenA] = SwapAddr
              /\ State(r.st, r.ret) = Pending
              /\ r.st.swaps[r.ret] =
                   [tokenAOwner |-> c, tokenA |-> tokenA, tokenBOwner |-> o,
                    tokenB |-> tokenB, executed |-> FALSE]

\* a swap is Pending with its tokenA in escrow and its tokenB still with the
\* counterparty, a user
C5_Witness ==
    \E id \in SwapIds :
        /\ State(Storage, id) = Pending
        /\ owners[swaps[id].tokenA] = SwapAddr
        /\ swaps[id].tokenBOwner \in Users
        /\ owners[swaps[id].tokenB] = swaps[id].tokenBOwner

\* C6: createSwap records as proposer the account that held tokenA before the
\* call, the record of a swap that stays Pending does not change, and a
\* successful cancelSwap(swapId) is a call by that proposer which leaves
\* tokenA with the proposer again, the holder of tokenB as it was, and the
\* swap Cancelled, its record erased.
C6_CancelSwapReturns ==
    [][/\ nextSwapId' # nextSwapId =>
            \A c \in Users, tokenA \in Tokens, o \in Address, tokenB \in Tokens :
                LET r == createSwap(Storage, c, tokenA, o, tokenB)
                IN  (r.err = OK /\ Storage' = r.st) =>
                        swaps'[r.ret].tokenAOwner = owners[tokenA]
       /\ swaps' # swaps =>
            \A id \in SwapIds :
                (State(Storage, id) = Pending /\ State(Storage', id) = Pending) =>
                    swaps'[id] = swaps[id]
       /\ Storage' # Storage =>
            \A c \in Users, id \in SwapIds :
                LET r == cancelSwap(Storage, c, id)
                IN  (r.err = OK /\ Storage' = r.st) =>
                        /\ c = swaps[id].tokenAOwner
                        /\ owners[swaps[id].tokenA] = SwapAddr
                        /\ owners'[swaps[id].tokenA] = swaps[id].tokenAOwner
                        /\ owners'[swaps[id].tokenB] = owners[swaps[id].tokenB]
                        /\ swaps'[id] = EmptySwap
                        /\ State(Storage', id) = Cancelled]_vars

\* a swap has been cancelled and every asset is with a user again
C6_Witness ==
    /\ \E id \in SwapIds : State(Storage, id) = Cancelled
    /\ nextTokenId > MaxTokens
    /\ \A t \in Tokens : owners[t] \in Users

\* C7 as stated: on an Executed swap every acceptSwap and cancelSwap, by any
\* caller, fails with SwapNotPending and changes nothing.
C7_AsStated ==
    \A c \in Users, id \in SwapIds :
        State(Storage, id) = Executed =>
            /\ acceptSwap(Storage, c, id) = Fail(Storage, SwapNotPending)
            /\ cancelSwap(Storage, c, id) = Fail(Storage, SwapNotPending)

\* C7: on an Executed swap every acceptSwap and cancelSwap, by any caller,
\* fails and changes nothing: with SwapNotPending while the coordinator is not
\* paused, with SystemPaused while it is paused.
C7_ExecutedIsFinal ==
    \A c \in Users, id \in SwapIds :
        State(Storage, id) = Executed =>
            LET e == IF swapPaused THEN SystemPaused ELSE SwapNotPending
            IN  /\ acceptSwap(Storage, c, id) = Fail(Storage, e)
                /\ cancelSwap(Storage, c, id) = Fail(Storage, e)

\* a swap is Executed and its tokenA is in the coordinator's custody again,
\* where a second payout would take it from
C7_Witness ==
    \E id \in SwapIds :
        /\ State(Storage, id) = Executed
        /\ ~swapPaused
        /\ owners[swaps[id].tokenA] = SwapAddr

\* a failure kind of the design that no revert reason of the contracts carries
UnknownSwap == "UnknownSwap"

C9_AsStated ==
    \A c \in Users, id \in SwapIds :
        (State(Storage, id) = Pending
         /\ owners[swaps[id].tokenB] # swaps[id].tokenBOwner) =>
            acceptSwap(Storage, c, id) = Fail(Storage, OwnershipChanged)

\* C9: when the holder of a Pending swap's tokenB is not the recorded
\* counterparty, acceptSwap fails for every caller and changes nothing.  The
\* failure is that of the first check that fails: SystemPaused, NotCounterparty
\* (the caller is not the recorded counterparty), NotApproved (the coordinator
\* is not the approved operator of tokenB), and OwnershipChanged only when all
\* of these pass.
C9_StaleCounterpartyFails ==
    \A c \in Users, id \in SwapIds :
        (State(Storage, id) = Pending
         /\ owners[swaps[id].tokenB] # swaps[id].tokenBOwner) =>
            acceptSwap(Storage, c, id) =
              Fail(Storage,
                   IF swapPaused THEN SystemPaused
                   ELSE IF c # swaps[id].tokenBOwner THEN NotCounterparty
                   ELSE IF tokenApprovals[swaps[id].tokenB] # SwapAddr THEN NotApprovedB
                   ELSE OwnershipChanged)

\* the counterparty has transferred tokenB to a third account, which cleared
\* the approval: the counterparty's acceptSwap fails with NotApproved
C9_Witness ==
    \E id \in SwapIds :
        /\ State(Storage, id) = Pending
        /\ ~swapPaused
        /\ owners[swaps[id].tokenB] \in Users \ {swaps[id].tokenAOwner, swaps[id].tokenBOwner}
        /\ tokenApprovals[swaps[id].tokenB] = Zero
        /\ acceptSwap(Storage, swaps[id].tokenBOwner, id).err = NotApprovedB

\* C10 as stated: acceptSwap on a Pending swap succeeds only for the recorded
\* counterparty, and by any other account it fails with NotCounterparty and
\* changes nothing.
C10_AsStated ==
    \A c \in Users, id \in SwapIds :
        LET r == acceptSwap(Storage, c, id)
        IN  /\ r.err = OK => (State(Storage, id) = Pending /\ c = swaps[id].tokenBOwner)
            /\ (State(Storage, id) = Pending /\ c # swaps[id].tokenBOwner) =>
                    r = Fail(Storage, NotCounterparty)

\* C10: acceptSwap succeeds only on a Pending swap and only for the
\* counterparty recorded in it; on a Pending swap a call by any other account
\* fails and changes nothing, with NotCounterparty while the coordinator is not
\* paused and with SystemPaused while it is paused.
C10_OnlyCounterpartyAccepts ==
    \A c \in Users, id \in SwapIds :
        LET r == acceptSwap(Storage, c, id)
        IN  /\ r.err = OK => (State(Storage, id) = Pending /\ c = swaps[id].tokenBOwner)
            /\ (State(Storage, id) = Pending /\ c # swaps[id].tokenBOwner) =>
                    r = Fail(Storage, IF swapPaused THEN SystemPaused
                                      ELSE NotCounterparty)

\* a Pending swap that its counterparty can accept and its proposer, another
\* account, cannot
C10_Witness ==
    \E id \in SwapIds :
        /\ State(Storage, id) = Pending
        /\ swaps[id].tokenAOwner # swaps[id].tokenBOwner
        /\ acceptSwap(Storage, swaps[id].tokenBOwner, id).err = OK
        /\ acceptSwap(Storage, swaps[id].tokenAOwner, id).err = NotCounterparty


\* C11 as stated: cancelSwap succeeds only for the recorded proposer; on a
\* Pending swap a call by any other account fails with NotProposer and changes
\* nothing.
C11_AsStated ==
    \A c \in Users, id \in SwapIds :
        LET r == cancelSwap(Storage, c, id)
        IN  /\ r.err = OK => (State(Storage, id) = Pending /\ c = swaps[id].tokenAOwner)
            /\ (State(Storage, id) = Pending /\ c # swaps[id].tokenAOwner) =>
                    r = Fail(Storage, NotProposer)

\* C11: cancelSwap succeeds only on a Pending swap and only for the proposer
\* recorded in it; on a Pending swap a call by any other account (the
\* counterparty and the owner of the coordinator included) fails and changes
\* nothing, so the asset stays in escrow and the swap Pending; the failure is
\* NotProposer while the coordinator is not paused and SystemPaused while it is.
C11_OnlyProposerCancels ==
    \A c \in Users, id \in SwapIds :
        LET r == cancelSwap(Storage, c, id)
        IN  /\ r.err = OK => (State(Storage, id) = Pending /\ c = swaps[id].tokenAOwner)
            /\ (State(Storage, id) = Pending /\ c # swaps[id].tokenAOwner) =>
                    /\ r = Fail(Storage, IF swapPaused THEN SystemPaused
                                         ELSE NotProposer)
                    /\ r.st.owners[swaps[id].tokenA] = SwapAddr
                    /\ State(r.st, id) = Pending

\* a Pending swap between two users, neither of them the owner of the
\* coordinator: the proposer can cancel it, the counterparty and the owner
\* cannot
C11_Witness ==
    \E id \in SwapIds :
        /\ State(Storage, id) = Pending
        /\ swaps[id].tokenBOwner \in Users \ {swaps[id].tokenAOwner, swapOwner}
        /\ swapOwner \in Users \ {swaps[id].tokenAOwner}
        /\ cancelSwap(Storage, swaps[id].tokenAOwner, id).err = OK
        /\ cancelSwap(Storage, swaps[id].tokenBOwner, id).err = NotProposer
        /\ cancelSwap(Storage, swapOwner, id).err = NotProposer

\* the operator authorized for an asset, nobody for an id that is no asset
authorizedOperator(s, id) == IF id \in Tokens THEN s.tokenApprovals[id] ELSE Zero

\* C12 as stated: createSwap on two existing assets fails with NotApproved and
\* changes nothing unless the coordinator is the authorized operator of
\* tokenA, and acceptSwap on a
\* Pending swap fails with NotApproved and changes nothing unless the
\* coordinator is the authorized operator of tokenB.
C12_AsStated ==
    /\ \A c \in Users, tokenA \in Tokens, o \in Address, tokenB \in Tokens :
          (/\ exists(Storage, tokenA)
           /\ exists(Storage, tokenB)
           /\ authorizedOperator(Storage, tokenA) # SwapAddr) =>
              createSwap(Storage, c, tokenA, o, tokenB) = Fail(Storage, NotApprovedA)
    /\ \A c \in Users, id \in SwapIds :
          (State(Storage, id) = Pending
           /\ authorizedOperator(Storage, swaps[id].tokenB) # SwapAddr) =>
              acceptSwap(Storage, c, id) = Fail(Storage, NotApprovedB)

\* C12: createSwap returns only if the coordinator is the authorized operator
\* of tokenA, and acceptSwap only if it is the authorized operator of tokenB;
\* without that authorization the call fails and changes nothing, and the
\* failure is NotApproved whenever the checks made before it pass (for
\* createSwap: not paused, two different assets, the caller holds tokenA, the
\* named counterparty holds tokenB; for acceptSwap: not paused, the caller is
\* the recorded counterparty).
C12_EscrowNeedsApproval ==
    /\ nextSwapId <= MaxSwaps =>
        \A c \in Users, tokenA \in Tokens, o \in Address, tokenB \in Tokens :
          LET r == createSwap(Storage, c, tokenA, o, tokenB)
          IN  /\ r.err = OK => tokenApprovals[tokenA] = SwapAddr
              /\ authorizedOperator(Storage, tokenA) # SwapAddr =>
                    /\ r.err # OK
                    /\ r.st = Storage
                    /\ (/\ ~swapPaused
                        /\ tokenA # tokenB
                        /\ owners[tokenA] = c
                        /\ exists(Storage, tokenB)
                        /\ owners[tokenB] = o) => r.err = NotApprovedA
    /\ \A c \in Users, id \in SwapIds :
          State(Storage, id) = Pending =>
            LET r == acceptSwap(Storage, c, id)
            IN  /\ r.err = OK => tokenApprovals[swaps[id].tokenB] = SwapAddr
                /\ authorizedOperator(Storage, swaps[id].tokenB) # SwapAddr =>
                      /\ r.err # OK
                      /\ r.st = Storage
                      /\ (~swapPaused /\ c = swaps[id].tokenBOwner) =>
                              r.err = NotApprovedB

\* a Pending swap whose counterparty still holds tokenB without having
\* approved the coordinator, and a holder whose createSwap lacks nothing but
\* the approval
C12_Witness ==
    /\ nextSwapId <= MaxSwaps
    /\ \E id \in SwapIds :
        /\ State(Storage, id) = Pending
        /\ owners[swaps[id].tokenB] = swaps[id].tokenBOwner
        /\ acceptSwap(Storage, swaps[id].tokenBOwner, id).err = NotApprovedB
    /\ \E c \in Users, tokenA \in Tokens, tokenB \in Tokens :
        /\ owners[tokenA] = c
        /\ createSwap(Storage, c, tokenA, owners[tokenB], tokenB).err = NotApprovedA

\* C13: while the coordinator is paused every createSwap, acceptSwap and
\* cancelSwap, whatever its arguments and its caller, fails with SystemPaused
\* and changes nothing.
C13_PausedBlocksSwaps ==
    swapPaused =>
        /\ \A c \in Users, tokenA \in Tokens, o \in Address, tokenB \in Tokens :
              createSwap(Storage, c, tokenA, o, tokenB) = Fail(Storage, SystemPaused)
        /\ \A c \in Users, id \in SwapIds :
              /\ acceptSwap(Storage, c, id) = Fail(Storage, SystemPaused)
              /\ cancelSwap(Storage, c, id) = Fail(Storage, SystemPaused)

\* the coordinator is paused with an asset in escrow for a Pending swap that
\* its proposer could cancel and its counterparty accept if it were not
C13_Witness ==
    /\ swapPaused
    /\ \E id \in SwapIds :
        /\ State(Storage, id) = Pending
        /\ owners[swaps[id].tokenA] = SwapAddr
        /\ cancelSwap([Storage EXCEPT !.swapPaused = FALSE],
                      swaps[id].tokenAOwner, id).err = OK
        /\ acceptSwap([Storage EXCEPT !.swapPaused = FALSE],
                      swaps[id].tokenBOwner, id).err = OK

\* C14: a pause() that returns changes the paused flag and nothing else, and
\* so does an unpause(); the unpause() after a pause() leaves the whole
\* storage (swap records, holders, operators, next swap id) as it was before
\* the pause, so that every call has the result it had before.
C14_PauseChangesOnlyFlag ==
    \A c \in Users :
        LET p == swapPause(Storage, c)
            u == swapUnpause(Storage, c)
            pu == swapUnpause(p.st, c)
        IN  /\ u.err = OK => u.st = [Storage EXCEPT !.swapPaused = FALSE]
            /\ p.err = OK =>
                  /\ p.st = [Storage EXCEPT !.swapPaused = TRUE]
                  /\ pu.err = OK
                  /\ pu.st = Storage
                  /\ \A d \in Users, id \in SwapIds :
                        /\ State(pu.st, id) = State(Storage, id)
                        /\ acceptSwap(pu.st, d, id) = acceptSwap(Storage, d, id)
                        /\ cancelSwap(pu.st, d, id) = cancelSwap(Storage, d, id)
                  /\ nextSwapId <= MaxSwaps =>
                        \A d \in Users, tokenA \in Tokens, tokenB \in Tokens :
                            createSwap(pu.st, d, tokenA, owners[tokenB], tokenB) =
                                createSwap(Storage, d, tokenA, owners[tokenB], tokenB)

\* the coordinator has been paused while one swap is Pending and another one
\* Executed or Cancelled
C14_Witness ==
    /\ swapPaused
    /\ \E i \in SwapIds, j \in SwapIds :
        /\ State(Storage, i) = Pending
        /\ State(Storage, j) \in {Executed, Cancelled}

\* C15 as stated: pause() and unpause() called by an account other than the
\* deployer fail.
C15_AsStated ==
    \A c \in Users \ {Deployer} :
        /\ swapPause(Storage, c).err # OK
        /\ swapUnpause(Storage, c).err # OK

\* C15: the paused flag of the coordinator changes only in a pause() or an
\* unpause() called by the coordinator's current owner, which is the deployer
\* until it hands the ownership over or renounces it; a pause() or unpause()
\* by any other account fails with NotAdmin and changes nothing, and no other
\* call of the coordinator or the registry changes the flag.
C15_OnlyOwnerPauses ==
    /\ [](\A c \in Users :
            /\ c # swapOwner =>
                  /\ swapPause(Storage, c) = Fail(Storage, NotAdmin)
                  /\ swapUnpause(Storage, c) = Fail(Storage, NotAdmin)
            /\ swapTransferOwnership(Storage, c, "A").st.swapPaused = swapPaused
            /\ swapRenounceOwnership(Storage, c).st.swapPaused = swapPaused
            /\ cardPause(Storage, c).st.swapPaused = swapPaused
            /\ cardUnpause(Storage, c).st.swapPaused = swapPaused
            /\ \A id \in SwapIds :
                  /\ acceptSwap(Storage, c, id).st.swapPaused = swapPaused
                  /\ cancelSwap(Storage, c, id).st.swapPaused = swapPaused
            /\ \A id \in Tokens, to \in Address :
                  /\ approve(Storage, c, to, id).st.swapPaused = swapPaused
                  /\ transferFrom(Storage, c, owners[id], to, id).st.swapPaused = swapPaused
                  /\ nextSwapId <= MaxSwaps =>
                        \A tokenB \in Tokens :
                            createSwap(Storage, c, id, to, tokenB).st.swapPaused = swapPaused
            /\ nextTokenId <= MaxTokens =>
                  \A to \in MintTo :
                      mint(Storage, c, to, "uri").st.swapPaused = swapPaused)
    /\ [][swapPaused' # swapPaused =>
            /\ swapOwner \in Users
            /\ Storage' = [Storage EXCEPT !.swapPaused = ~swapPaused]
            /\ Storage' = (IF swapPaused THEN swapUnpause(Storage, swapOwner)
                           ELSE swapPause(Storage, swapOwner)).st]_vars

\* the deployer has handed the ownership of the coordinator over, and the new
\* owner, not the deployer, can lift the pause in effect
C15_Witness ==
    /\ swapPaused
    /\ swapOwner \in Users \ {Deployer}
    /\ swapUnpause(Storage, Deployer).err = NotAdmin
    /\ swapUnpause(Storage, swapOwner).err = OK

\* asset ids, with one below and one above the ids of the registry
AnyTokens == 0..(MaxTokens + 1)

\* the holder of an asset, nobody for an id that is no asset
currentHolder(s, id) == IF id \in Tokens THEN s.owners[id] ELSE Zero

\* C16 as stated: createSwap reports the first failing one of: paused
\* (SystemPaused), tokenA = tokenB (IdenticalAssets), the caller is not the
\* holder of tokenA (NotOwner), tokenBOwner is not the holder of tokenB
\* (CounterpartyMismatch), the coordinator is not the authorized operator of
\* tokenA (NotApproved).
C16_AsStated ==
    nextSwapId <= MaxSwaps =>
      \A c \in Users, tokenA \in AnyTokens, o \in Address, tokenB \in AnyTokens :
        createSwap(Storage, c, tokenA, o, tokenB).err =
            IF swapPaused THEN SystemPaused
            ELSE IF tokenA = tokenB THEN IdenticalAssets
            ELSE IF currentHolder(Storage, tokenA) # c THEN NotOwner
            ELSE IF currentHolder(Storage, tokenB) # o THEN CounterpartyMismatch
            ELSE IF authorizedOperator(Storage, tokenA) # SwapAddr THEN NotApprovedA
            ELSE OK

\* C16: createSwap reports the first failing one of: paused (SystemPaused),
\* tokenA = tokenB (IdenticalAssets), tokenA does not exist (UnknownAsset), the
\* caller is not the holder of tokenA (NotOwner), tokenB does not exist
\* (UnknownAsset), tokenBOwner is not the holder of tokenB
\* (CounterpartyMismatch), the coordinator is not the authorized operator of
\* tokenA (NotApproved); it returns when none fails, and a call that fails
\* changes nothing.
C16_CreateSwapOrder ==
    nextSwapId <= MaxSwaps =>
      \A c \in Users, tokenA \in AnyTokens, o \in Address, tokenB \in AnyTokens :
        LET r == createSwap(Storage, c, tokenA, o, tokenB)
        IN  /\ r.err =
                IF swapPaused THEN SystemPaused
                ELSE IF tokenA = tokenB THEN IdenticalAssets
                ELSE IF currentHolder(Storage, tokenA) = Zero THEN UnknownAsset
                ELSE IF currentHolder(Storage, tokenA) # c THEN NotOwner
                ELSE IF currentHolder(Storage, tokenB) = Zero THEN UnknownAsset
                ELSE IF currentHolder(Storage, tokenB) # o THEN CounterpartyMismatch
                ELSE IF authorizedOperator(Storage, tokenA) # SwapAddr THEN NotApprovedA
                ELSE OK
            /\ r.err # OK => r.st = Storage

\* a createSwap that violates three preconditions at once (the caller does
\* not hold tokenA, the named counterparty does not hold tokenB, tokenA is not
\* approved) and reports the earliest, and one that violates the last two and
\* reports the earlier
C16_Witness ==
    /\ ~swapPaused
    /\ nextSwapId <= MaxSwaps
    /\ \E c \in Users, o \in Users, tokenA \in Tokens, tokenB \in Tokens :
        /\ tokenA # tokenB
        /\ owners[tokenA] \in Users \ {c}
        /\ owners[tokenB] \in Users \ {o}
        /\ tokenApprovals[tokenA] # SwapAddr
        /\ createSwap(Storage, c, tokenA, o, tokenB).err = NotOwner
        /\ createSwap(Storage, owners[tokenA], tokenA, o, tokenB).err = CounterpartyMismatch

\* C17 as stated: createSwap with tokenA = tokenB fails with IdenticalAssets,
\* whoever the caller and the counterparty are, and changes nothing.
C17_AsStated ==
    \A c \in Users, t \in AnyTokens, o \in Address :
        createSwap(Storage, c, t, o, t) = Fail(Storage, IdenticalAssets)

\* C17: createSwap with tokenA = tokenB fails and changes nothing, whoever the
\* caller and the named counterparty are and whether or not the asset exists,
\* is held by the caller or is approved: with IdenticalAssets while the
\* coordinator is not paused, with SystemPaused while it is paused.
C17_SameAssetFails ==
    \A c \in Users, t \in AnyTokens, o \in Address :
        createSwap(Storage, c, t, o, t) =
            Fail(Storage, IF swapPaused THEN SystemPaused ELSE IdenticalAssets)

\* an asset whose holder has approved the coordinator: offering it for itself,
\* with the holder as counterparty, fails the check of the two ids only
C17_Witness ==
    /\ ~swapPaused
    /\ nextSwapId <= MaxSwaps
    /\ \E t \in Tokens :
        /\ owners[t] \in Users
        /\ tokenApprovals[t] = SwapAddr
        /\ createSwap(Storage, owners[t], t, owners[t], t).err = IdenticalAssets

\* the result of a call that failed in the storage s: the storage is s again
\* and nothing is logged
Reverted(s, r) == r.err # OK => (r.st = s /\ r.ev = <<>>)

\* C18: a call of the registry or the coordinator (mint, approve,
\* setApprovalForAll, transferFrom, pause, unpause, createSwap, acceptSwap,
\* cancelSwap) that fails leaves the whole storage as it was before the call:
\* holders, operators, swap records, next swap id, next asset id and paused
\* flags; and it logs no event.
C18_FailedCallChangesNothing ==
    \A c \in Users :
        /\ Reverted(Storage, cardPause(Storage, c))
        /\ Reverted(Storage, cardUnpause(Storage, c))
        /\ Reverted(Storage, swapPause(Storage, c))
        /\ Reverted(Storage, swapUnpause(Storage, c))
        /\ \A to \in MintTo : Reverted(Storage, mint(Storage, c, to, "uri"))
        /\ \A o \in Users, b \in BOOLEAN :
              Reverted(Storage, setApprovalForAll(Storage, c, o, b))
        /\ \A id \in SwapIds :
              /\ Reverted(Storage, acceptSwap(Storage, c, id))
              /\ Reverted(Storage, cancelSwap(Storage, c, id))
        /\ \A id \in Tokens, to \in Address :
              /\ Reverted(Storage, approve(Storage, c, to, id))
              /\ \A from \in {c, owners[id]} :
                    Reverted(Storage, transferFrom(Storage, c, from, to, id))
              /\ nextSwapId <= MaxSwaps =>
                    \A tokenB \in Tokens :
                        Reverted(Storage, createSwap(Storage, c, id, to, tokenB))

\* a mint to the coordinator, which fails in the recipient check made after
\* the asset is created, and an acceptSwap that fails in its first transfer
C18_Witness ==
    /\ ~cardPaused
    /\ \E c \in Users : mint(Storage, c, SwapAddr, "uri").err = NotReceiver
    /\ \E id \in SwapIds :
        /\ State(Storage, id) = Pending
        /\ acceptSwap(Storage, swaps[id].tokenBOwner, id).err = OwnershipChanged

\* the storages in which some createSwap, acceptSwap or cancelSwap made in the
\* storage s is inside a transfer of an asset
InsideTransfer(s) ==
    UNION ({acceptSwapTransfers(s, c, id) : c \in Users, id \in SwapIds}
           \cup {cancelSwapTransfers(s, c, id) : c \in Users, id \in SwapIds}
           \cup (IF s.nextSwapId > MaxSwaps THEN {}
                 ELSE {createSwapTransfers(s, c, tokenA, s.owners[tokenB], tokenB) :
                         c \in Users, tokenA \in Tokens, tokenB \in Tokens}))

\* C19: while a createSwap, acceptSwap or cancelSwap is inside a transfer of
\* an asset, every nested createSwap, acceptSwap and cancelSwap, by any caller
\* and on any swap id, fails (with Reentrant) and changes nothing: it moves no
\* asset and no swap changes its state.
C19_NestedCallFails ==
    \A m \in InsideTransfer(Storage) :
        /\ m.status = ENTERED
        /\ \A c \in Users, id \in SwapIds :
              /\ acceptSwap(m, c, id) = Fail(m, Reentrant)
              /\ cancelSwap(m, c, id) = Fail(m, Reentrant)
        /\ \A c \in Users, tokenA \in Tokens, o \in Address, tokenB \in Tokens :
              createSwap(m, c, tokenA, o, tokenB) = Fail(m, Reentrant)

\* an acceptSwap is inside a transfer in a storage in which, were it not for
\* the guard, the proposer's cancelSwap on the same swap would take the
\* escrowed asset out of custody
C19_Witness ==
    \E id \in SwapIds :
        /\ State(Storage, id) = Pending
        /\ acceptSwap(Storage, swaps[id].tokenBOwner, id).err = OK
        /\ \E m \in acceptSwapTransfers(Storage, swaps[id].tokenBOwner, id) :
              cancelSwap([m EXCEPT !.status = NOT_ENTERED],
                         swaps[id].tokenAOwner, id).err = OK

C21_CreateSwapTakesNextId ==
    nextSwapId <= MaxSwaps =>
        \A c \in Users, tokenA \in Tokens, o \in Address, tokenB \in Tokens :
            LET r == createSwap(Storage, c, tokenA, o, tokenB) IN
            IF r.err = OK
            THEN /\ r.ret = nextSwapId
                 /\ r.ret # 0
                 /\ State(Storage, r.ret) = NoSwap
                 /\ swaps[r.ret] = EmptySwap
                 /\ r.st.nextSwapId = nextSwapId + 1
                 /\ State(r.st, r.ret) = Pending
            ELSE r.st.nextSwapId = nextSwapId

\* C21: swap ids are assigned sequentially from 1.  The counter starts at 1;
\* a successful createSwap returns the counter's value and moves it up by
\* one, so the k-th successful createSwap returns k; a failed createSwap
\* consumes no id; no other call (acceptSwap, cancelSwap, pause, unpause, the
\* registry's calls) moves the counter, so it never goes down and an id is
\* never assigned twice, also after cancelSwap erased the record; id 0 is
\* never assigned.
C21_SwapIdsSequential ==
    /\ nextSwapId = 1
    /\ [](/\ nextSwapId >= 1
          /\ State(Storage, 0) = NoSwap /\ swaps[0] = EmptySwap
          /\ C21_CreateSwapTakesNextId
          /\ \A c \in Users, id \in SwapIds :
                /\ acceptSwap(Storage, c, id).st.nextSwapId = nextSwapId
                /\ cancelSwap(Storage, c, id).st.nextSwapId = nextSwapId)
    /\ [][nextSwapId' # nextSwapId =>
            /\ nextSwapId' = nextSwapId + 1
            /\ \E c \in Users, tokenA \in Tokens, tokenB \in Tokens :
                  LET r == createSwap(Storage, c, tokenA, owners[tokenB], tokenB)
                  IN  /\ r.err = OK
                      /\ r.ret = nextSwapId
                      /\ Storage' = r.st]_vars

\* swap 1 was cancelled and its record erased, and the createSwap made after
\* that got id 2
C21_Witness ==
    /\ nextSwapId = 3
    /\ State(Storage, 1) = Cancelled
    /\ swaps[1] = EmptySwap
    /\ State(Storage, 2) = Pending

\* the assets created so far
Minted(s) == {t \in Tokens : exists(s, t)}

\* what every mint made in the current storage does to the ids: a successful
\* one creates the asset whose id is the counter's value, an id no asset has
\* so far, and moves the counter up by one; a failed one creates no asset and
\* leaves the counter alone
C22_MintTakesNextId ==
    nextTokenId <= MaxTokens =>
        \A c \in Users, to \in MintTo, u \in Uris :
            LET r == mint(Storage, c, to, u) IN
            IF r.err = OK
            THEN /\ ~exists(Storage, nextTokenId)
                 /\ Minted(r.st) = Minted(Storage) \cup {nextTokenId}
                 /\ r.st.owners[nextTokenId] = to
                 /\ r.st.nextTokenId = nextTokenId + 1
                 /\ r.ev = <<Transfer(Zero, to, nextTokenId)>>
            ELSE /\ r.st.nextTokenId = nextTokenId
                 /\ Minted(r.st) = Minted(Storage)

\* C22: asset ids are unique, sequential and never reused.  The counter
\* starts at 1; the k-th successful mint creates the asset with id k; the
\* value nextTokenId() returns is always one plus the number of assets
\* created, which are the ids 1 .. nextTokenId - 1; a failed mint (while
\* paused, or to a recipient that is refused) consumes no id; and the counter
\* moves only by one, only in a successful mint, and an asset once created
\* stays.
C22_AssetIdsSequential ==
    /\ nextTokenId = 1
    /\ [](/\ nextTokenId = 1 + Cardinality(Minted(Storage))
          /\ Minted(Storage) = 1 .. (nextTokenId - 1)
          /\ C22_MintTakesNextId)
    /\ [][/\ Minted(Storage) \subseteq Minted(Storage')
          /\ nextTokenId' # nextTokenId =>
                /\ nextTokenId' = nextTokenId + 1
                /\ \E c \in Users, to \in MintTo, u \in Uris :
                      LET r == mint(Storage, c, to, u)
                      IN  /\ r.err = OK
                          /\ Storage' = r.st]_vars

\* two assets were created, with the ids 1 and 2, and the registry is paused,
\* so that the next mint fails
C22_Witness ==
    /\ nextTokenId = 3
    /\ Minted(Storage) = {1, 2}
    /\ cardPaused
    /\ \A c \in Users : mint(Storage, c, "A", "uri").err = SystemPaused

\* the call that made the storage s into r.st, if it succeeded, cleared the
\* operator of every asset whose holder it changed, and in the storage it
\* leaves such an asset can be transferred away only by its new holder or by
\* an account the new holder made its operator for all its assets
ClearsOperator(s, r) ==
    r.err = OK =>
        \A t \in Tokens :
            r.st.owners[t] # s.owners[t] =>
                /\ authorizedOperator(r.st, t) = Zero
                /\ \A x \in Holders, to \in Holders :
                      transferFrom(r.st, x, r.st.owners[t], to, t).err = OK =>
                          \/ x = r.st.owners[t]
                          \/ isApprovedForAll(r.st, r.st.owners[t], x)

\* C23: whenever an asset's holder changes (direct transfer, escrow by
\* createSwap, payout by acceptSwap, return by cancelSwap, also inside these
\* calls after each single transfer), the asset's authorized operator is
\* cleared, so the approval an earlier holder gave lets nobody transfer the
\* asset away from the new holder; and the asset cancelSwap returns cannot be
\* offered by its holder in a new swap (createSwap fails for the missing
\* approval) until it is approved again.
C23_HolderChangeClearsOperator ==
    /\ [](/\ \A c \in Users, id \in Tokens, to \in Address :
                \A from \in {c, owners[id]} :
                    ClearsOperator(Storage, transferFrom(Storage, c, from, to, id))
          /\ \A c \in Users, id \in SwapIds :
                /\ ClearsOperator(Storage, acceptSwap(Storage, c, id))
                /\ \A m \in acceptSwapTransfers(Storage, c, id) :
                      ClearsOperator(Storage, Done(m))
                /\ ClearsOperator(Storage, cancelSwap(Storage, c, id))
                /\ LET r == cancelSwap(Storage, c, id) IN
                   (r.err = OK /\ nextSwapId <= MaxSwaps) =>
                       \A tokenB \in Tokens \ {swaps[id].tokenA} :
                           exists(r.st, tokenB) =>
                               createSwap(r.st, c, swaps[id].tokenA,
                                          r.st.owners[tokenB], tokenB).err
                                   = NotApprovedA
          /\ nextSwapId <= MaxSwaps =>
                \A c \in Users, tokenA \in Tokens, tokenB \in Tokens :
                    ClearsOperator(Storage,
                        createSwap(Storage, c, tokenA, owners[tokenB], tokenB)))
    /\ [][\A t \in Tokens :
            owners'[t] # owners[t] => tokenApprovals'[t] = Zero]_vars

\* a Pending swap whose proposer can cancel it: the returned asset has no
\* operator, the proposer's createSwap with it fails, and succeeds once the
\* proposer has approved the coordinator again
C23_Witness ==
    /\ nextSwapId <= MaxSwaps
    /\ \E id \in SwapIds, tokenB \in Tokens :
        LET r == cancelSwap(Storage, swaps[id].tokenAOwner, id)
            tokenA == swaps[id].tokenA
            a == approve(r.st, swaps[id].tokenAOwner, SwapAddr, tokenA) IN
        /\ State(Storage, id) = Pending
        /\ r.err = OK
        /\ r.st.owners[tokenA] = swaps[id].tokenAOwner
        /\ createSwap(r.st, swaps[id].tokenAOwner, tokenA,
                      r.st.owners[tokenB], tokenB).err = NotApprovedA
        /\ a.err = OK
        /\ createSwap(a.st, swaps[id].tokenAOwner, tokenA,
                      a.st.owners[tokenB], tokenB).err = OK

\* the accounts the registry lets transfer the asset id: its holder, its
\* authorized operator, and the accounts its holder approved for all assets
Authorized(s, c, id) ==
    /\ exists(s, id)
    /\ \/ c = s.owners[id]
       \/ c = authorizedOperator(s, id)
       \/ isApprovedForAll(s, s.owners[id], c)

\* the transfers logged in evs, made one after the other from the storage s
\* by caller: ok tells whether each of them is a transfer from the asset's
\* holder that caller is entitled to make, st is the storage they leave
RECURSIVE ApplyTransfers(_, _, _)
ApplyTransfers(s, caller, evs) ==
    IF evs = <<>> THEN [ok |-> TRUE, st |-> s]
    ELSE IF Head(evs).name # "Transfer" THEN ApplyTransfers(s, caller, Tail(evs))
    ELSE LET e == Head(evs)
             r == transferFrom(s, caller, e.from, e.to, e.tokenId)
         IN  IF /\ Authorized(s, caller, e.tokenId)
                /\ e.from = s.owners[e.tokenId]
                /\ r.err = OK
             THEN ApplyTransfers(r.st, caller, Tail(evs))
             ELSE [ok |-> FALSE, st |-> s]

\* the call of the coordinator that made the storage s into r.st changed
\* holders only by the transfers it logged, each made by the coordinator as
\* the asset's holder or authorized operator
MovesByTransfers(s, r) ==
    IF r.err # OK THEN r.st.owners = s.owners
    ELSE LET a == ApplyTransfers(s, SwapAddr, r.ev)
         IN  a.ok /\ a.st.owners = r.st.owners

\* C24 as stated: a transfer called by an account that is neither the asset's
\* holder nor its authorized operator fails and changes nothing.
C24_AsStated ==
    \A c \in Users, id \in Tokens, to \in Address :
        (exists(Storage, id) /\ c # owners[id] /\ c # authorizedOperator(Storage, id)) =>
            /\ transferFrom(Storage, c, owners[id], to, id).err # OK
            /\ transferFrom(Storage, c, owners[id], to, id).st = Storage

\* C24: the holder of an existing asset changes only through a transfer
\* called by its current holder, by its authorized operator, or by an account
\* the current holder approved for all its assets; a transfer by any other
\* account, or naming a from that is not the current holder, fails and changes
\* nothing; createSwap, acceptSwap and cancelSwap change holders only by such
\* transfers, made by the coordinator; mint gives a new asset its first
\* holder and changes no other; approve, setApprovalForAll, pause, unpause and
\* failed calls change no holder.
C24_HolderChangesByTransfer ==
    /\ [](/\ \A c \in Users, id \in Tokens, to \in Holders :
                \A from \in {c, owners[id]} :
                    LET r == transferFrom(Storage, c, from, to, id) IN
                    IF Authorized(Storage, c, id) /\ from = owners[id]
                    THEN /\ r.err = OK
                         /\ r.st.owners = [owners EXCEPT ![id] = to]
                    ELSE /\ r.err # OK
                         /\ r.st = Storage
          /\ \A c \in Users, id \in SwapIds :
                /\ MovesByTransfers(Storage, acceptSwap(Storage, c, id))
                /\ MovesByTransfers(Storage, cancelSwap(Storage, c, id))
          /\ nextSwapId <= MaxSwaps =>
                \A c \in Users, tokenA \in Tokens, o \in Address, tokenB \in Tokens :
                    MovesByTransfers(Storage, createSwap(Storage, c, tokenA, o, tokenB))
          /\ nextTokenId <= MaxTokens =>
                \A c \in Users, to \in MintTo, u \in Uris :
                    LET r == mint(Storage, c, to, u) IN
                    r.st.owners = IF r.err = OK
                                  THEN [owners EXCEPT ![nextTokenId] = to]
                                  ELSE owners
          /\ \A c \in Users :
                /\ cardPause(Storage, c).st.owners = owners
                /\ cardUnpause(Storage, c).st.owners = owners
                /\ swapPause(Storage, c).st.owners = owners
                /\ swapUnpause(Storage, c).st.owners = owners
                /\ \A o \in Users, b \in BOOLEAN :
                      setApprovalForAll(Storage, c, o, b).st.owners = owners
                /\ \A id \in Tokens, to \in Address :
                      approve(Storage, c, to, id).st.owners = owners)
    /\ [][owners' # owners =>
            \/ \E c \in Users, to \in MintTo, u \in Uris :
                  LET r == mint(Storage, c, to, u) IN r.err = OK /\ Storage' = r.st
            \/ \E c \in Users, id \in Tokens, to \in Address :
                  LET r == transferFrom(Storage, c, owners[id], to, id) IN
                  r.err = OK /\ Authorized(Storage, c, id) /\ Storage' = r.st
            \/ \E c \in Users, id \in SwapIds :
                  \/ LET r == acceptSwap(Storage, c, id) IN
                     r.err = OK /\ Storage' = r.st
                  \/ LET r == cancelSwap(Storage, c, id) IN
                     r.err = OK /\ Storage' = r.st
            \/ \E c \in Users, tokenA \in Tokens, tokenB \in Tokens :
                  LET r == createSwap(Storage, c, tokenA, owners[tokenB], tokenB) IN
                  r.err = OK /\ Storage' = r.st]_vars

\* an account that is neither the holder nor the authorized operator of an
\* asset, but was approved by the holder for all its assets, can transfer it,
\* while the transfer of an account with no approval fails
C24_Witness ==
    \E c \in Users, x \in Users, id \in Tokens :
        /\ exists(Storage, id)
        /\ c # owners[id]
        /\ c # authorizedOperator(Storage, id)
        /\ isApprovedForAll(Storage, owners[id], c)
        /\ transferFrom(Storage, c, owners[id], "A", id).err = OK
        /\ ~Authorized(Storage, x, id)
        /\ transferFrom(Storage, x, owners[id], x, id).err = NotAuthorized

\* C25 as stated: while the registry is paused mint fails with SystemPaused
\* and creates no asset; when it is not paused, mint(to, uri) creates exactly
\* one new asset, held by to, with the given metadata.
C25_AsStated ==
    nextTokenId <= MaxTokens =>
        \A c \in Users, to \in MintTo, u \in Uris :
            LET r == mint(Storage, c, to, u) IN
            IF cardPaused THEN r = Fail(Storage, SystemPaused)
            ELSE /\ r.err = OK
                 /\ r.st.owners = [owners EXCEPT ![nextTokenId] = to]
                 /\ r.st.tokenURIs = [tokenURIs EXCEPT ![nextTokenId] = u]

\* C25: while the registry is paused, mint fails with SystemPaused and
\* creates no asset.  When it is not paused, mint(to, uri) by any caller to a
\* user account creates exactly one new asset, held by to, with the given
\* metadata, and changes no other asset; mint to the zero address and mint to
\* a contract that does not accept assets (the coordinator) fail and create
\* nothing.  Only the registry's current owner can pause or unpause it: the
\* calls of every other account fail with NotAdmin, and the paused flag
\* changes only by the owner's pause or unpause.
C25_MintAndRegistryPause ==
    /\ [](/\ nextTokenId <= MaxTokens =>
                \A c \in Users, to \in MintTo, u \in Uris :
                    LET r == mint(Storage, c, to, u) IN
                    IF cardPaused THEN r = Fail(Storage, SystemPaused)
                    ELSE IF to = Zero THEN r = Fail(Storage, MintToZero)
                    ELSE IF to = SwapAddr THEN r = Fail(Storage, NotReceiver)
                    ELSE /\ r.err = OK
                         /\ ~exists(Storage, nextTokenId)
                         /\ r.st.owners = [owners EXCEPT ![nextTokenId] = to]
                         /\ r.st.tokenURIs = [tokenURIs EXCEPT ![nextTokenId] = u]
                         /\ r.st.tokenApprovals = tokenApprovals
          /\ \A c \in Users :
                c # cardOwner =>
                    /\ cardPause(Storage, c) = Fail(Storage, NotAdmin)
                    /\ cardUnpause(Storage, c) = Fail(Storage, NotAdmin))
    /\ [][cardPaused' # cardPaused =>
            /\ cardOwner \in Users
            /\ Storage' = (IF cardPaused THEN cardUnpause(Storage, cardOwner)
                           ELSE cardPause(Storage, cardOwner)).st]_vars

\* the registry, whose ownership was handed over, is paused with an asset in
\* it: mint fails, the deployer cannot unpause, the owner can, and after that
\* a mint to a user creates asset 2 while a mint to the zero address fails
C25_Witness ==
    /\ cardPaused
    /\ nextTokenId = 2
    /\ exists(Storage, 1)
    /\ cardOwner \in Users \ {Deployer}
    /\ mint(Storage, "A", "A", "uri").err = SystemPaused
    /\ cardUnpause(Storage, Deployer).err = NotAdmin
    /\ LET u == cardUnpause(Storage, cardOwner) IN
        /\ u.err = OK
        /\ mint(u.st, "A", "B", "uri").err = OK
        /\ mint(u.st, "A", "B", "uri").st.owners[2] = "B"
        /\ mint(u.st, "A", Zero, "uri").err = MintToZero

\* C30: a successful createSwap(tokenA, tokenBOwner, tokenB) changes only the
\* record of the new swap, the next swap id, and the holder (now the
\* coordinator) and the operator (now none) of tokenA; the holder and the
\* operator of tokenB, every other asset, every other swap record and the
\* rest of the storage of both contracts are as before.
C30_CreateSwapFrame ==
    nextSwapId <= MaxSwaps =>
        \A c \in Users, tokenA \in Tokens, o \in Address, tokenB \in Tokens :
            LET r == createSwap(Storage, c, tokenA, o, tokenB) IN
            r.err = OK =>
                /\ r.st = [Storage EXCEPT
                             !.swaps[nextSwapId] =
                                 [tokenAOwner |-> c, tokenA |-> tokenA,
                                  tokenBOwner |-> o, tokenB |-> tokenB,
                                  executed |-> FALSE],
                             !.nextSwapId = nextSwapId + 1,
                             !.owners[tokenA] = SwapAddr,
                             !.tokenApprovals[tokenA] = Zero]
                /\ r.st.owners[tokenB] = owners[tokenB]
                /\ r.st.tokenApprovals[tokenB] = tokenApprovals[tokenB]
                /\ \A id \in SwapIds \ {nextSwapId} : r.st.swaps[id] = swaps[id]

\* swap 1 is Executed and its record kept, and a createSwap succeeds whose
\* counterparty asset has an operator
C30_Witness ==
    /\ nextSwapId = 2
    /\ State(Storage, 1) = Executed
    /\ swaps[1] # EmptySwap
    /\ \E c \in Users, tokenA \in Tokens, tokenB \in Tokens :
        /\ createSwap(Storage, c, tokenA, owners[tokenB], tokenB).err = OK
        /\ authorizedOperator(Storage, tokenB) = SwapAddr

\* C29 as stated: at every point of acceptSwap and of cancelSwap where a
\* transfer runs, the swap has left the Pending state already.
C29_AsStated ==
    \A c \in Users, id \in SwapIds :
        /\ \A m \in acceptSwapTransfers(Storage, c, id) : State(m, id) # Pending
        /\ \A m \in cancelSwapTransfers(Storage, c, id) : State(m, id) # Pending

\* C29: in acceptSwap and in cancelSwap the swap is still Pending, with its
\* record as it was, at every point where a transfer of that call runs; it
\* leaves Pending after the last transfer, when the call sets the executed
\* flag (acceptSwap) or erases the record (cancelSwap).  What holds while the
\* transfers run is that the coordinator's reentrancy status is ENTERED, so
\* that a nested acceptSwap or cancelSwap on that swap fails.
C29_PendingDuringTransfers ==
    \A c \in Users, id \in SwapIds :
        /\ \A m \in acceptSwapTransfers(Storage, c, id) :
              /\ State(m, id) = Pending
              /\ m.swaps = swaps
              /\ m.status = ENTERED
              /\ \A x \in Users : /\ acceptSwap(m, x, id).err = Reentrant
                                  /\ cancelSwap(m, x, id).err = Reentrant
        /\ \A m \in cancelSwapTransfers(Storage, c, id) :
              /\ State(m, id) = Pending
              /\ m.swaps = swaps
              /\ m.status = ENTERED
              /\ \A x \in Users : /\ acceptSwap(m, x, id).err = Reentrant
                                  /\ cancelSwap(m, x, id).err = Reentrant
        /\ acceptSwap(Storage, c, id).err = OK =>
              /\ State(acceptSwap(Storage, c, id).st, id) = Executed
              /\ \E m \in acceptSwapTransfers(Storage, c, id) :
                    acceptSwap(Storage, c, id).st =
                        [m EXCEPT !.swaps[id].executed = TRUE,
                                  !.status = NOT_ENTERED]
        /\ cancelSwap(Storage, c, id).err = OK =>
              /\ State(cancelSwap(Storage, c, id).st, id) = Cancelled
              /\ \E m \in cancelSwapTransfers(Storage, c, id) :
                    cancelSwap(Storage, c, id).st =
                        [m EXCEPT !.swaps[id] = EmptySwap,
                                  !.status = NOT_ENTERED]

\* a Pending swap that its counterparty can accept and its proposer can
\* cancel: both calls run their transfers while the swap is Pending
C29_Witness ==
    \E id \in SwapIds :
        /\ State(Storage, id) = Pending
        /\ acceptSwap(Storage, swaps[id].tokenBOwner, id).err = OK
        /\ cancelSwap(Storage, swaps[id].tokenAOwner, id).err = OK
        /\ Cardinality(acceptSwapTransfers(Storage, swaps[id].tokenBOwner, id)) = 4
        /\ Cardinality(cancelSwapTransfers(Storage, swaps[id].tokenAOwner, id)) = 2

\* the events of the coordinator
IsSwapFact(e) == e.name \in {"SwapCreated", "SwapExecuted", "SwapCancelled"}

\* the events of the coordinator in the sequence l that carry the swap id
SwapFacts(l, id) ==
    LET OfSwap(e) == IsSwapFact(e) /\ e.swapId = id
    IN  SelectSeq(l, OfSwap)

\* the call r, if it succeeded, emitted exactly one event of the coordinator,
\* named name and carrying the swap id; if it failed it emitted no event
EmitsOne(r, name, id) ==
    IF r.err # OK THEN r.ev = <<>>
    ELSE LET f == SelectSeq(r.ev, IsSwapFact) IN
         /\ Len(f) = 1
         /\ f[1].name = name
         /\ f[1].swapId = id
         /\ r.ev[Len(r.ev)] = f[1]

\* C26: every successful createSwap, acceptSwap and cancelSwap emits exactly
\* one SwapCreated, SwapExecuted or SwapCancelled carrying the id of its swap
\* (the id createSwap returns), as the last event of the call, and a failed
\* call emits none.  The log only grows, by the events of one call at a
\* time; in it the events of every swap id are a SwapCreated alone or a
\* SwapCreated followed by one SwapExecuted or one SwapCancelled, and ids not
\* assigned yet have none.
C26_SwapFactsInOrder ==
    /\ [](/\ \A c \in Users, id \in SwapIds :
                /\ EmitsOne(acceptSwap(Storage, c, id), "SwapExecuted", id)
                /\ EmitsOne(cancelSwap(Storage, c, id), "SwapCancelled", id)
          /\ nextSwapId <= MaxSwaps =>
                \A c \in Users, tokenA \in Tokens, o \in Address, tokenB \in Tokens :
                    LET r == createSwap(Storage, c, tokenA, o, tokenB)
                    IN  EmitsOne(r, "SwapCreated", nextSwapId) /\ r.ret \in {0, nextSwapId}
          /\ \A id \in SwapIds :
                LET f == SwapFacts(log, id) IN
                /\ Len(f) <= 2
                /\ Len(f) >= 1 => f[1].name = "SwapCreated"
                /\ Len(f) = 2 => f[2].name \in {"SwapExecuted", "SwapCancelled"}
                /\ Len(f) = 0 <=> State(Storage, id) = NoSwap)
    /\ [][/\ Len(log') >= Len(log)
          /\ SubSeq(log', 1, Len(log)) = log
          /\ Len(SelectSeq(log', IsSwapFact)) <= Len(SelectSeq(log, IsSwapFact)) + 1]_vars

\* the log holds the SwapCreated and the SwapCancelled of swap 1, the
\* SwapCreated and the SwapExecuted of swap 2
C26_Witness ==
    /\ Len(SwapFacts(log, 1)) = 2
    /\ SwapFacts(log, 1)[2].name = "SwapCancelled"
    /\ Len(SwapFacts(log, 2)) = 2
    /\ SwapFacts(log, 2)[2].name = "SwapExecuted"

\* the holders a client gets by replaying the Transfer events of l in order,
\* starting from the holders h: each event makes its recipient the holder
RECURSIVE FoldHolders(_, _)
FoldHolders(h, l) ==
    IF l = <<>> THEN h
    ELSE LET e == Head(l) IN
         FoldHolders(IF e.name = "Transfer" THEN [h EXCEPT ![e.tokenId] = e.to] ELSE h,
                     Tail(l))

\* the swaps a client gets by replaying the events of the coordinator in l in
\* order, starting from v: SwapCreated records the swap with its parties and
\* assets, SwapExecuted marks it executed, SwapCancelled erases it
RECURSIVE FoldSwaps(_, _)
FoldSwaps(v, l) ==
    IF l = <<>> THEN v
    ELSE LET e == Head(l) IN
         FoldSwaps(
             IF e.name = "SwapCreated"
             THEN [swaps |-> [v.swaps EXCEPT ![e.swapId] =
                                [tokenAOwner |-> e.tokenAOwner, tokenA |-> e.tokenA,
                                 tokenBOwner |-> e.tokenBOwner, tokenB |-> e.tokenB,
                                 executed |-> FALSE]],
                   nextSwapId |-> e.swapId + 1]
             ELSE IF e.name = "SwapExecuted"
             THEN [v EXCEPT !.swaps[e.swapId].executed = TRUE]
             ELSE IF e.name = "SwapCancelled"
             THEN [v EXCEPT !.swaps[e.swapId] = EmptySwap]
             ELSE v,
             Tail(l))

\* the client's view before any event
NoHolders == [t \in Tokens |-> Zero]
NoSwaps == [swaps |-> [i \in SwapIds |-> EmptySwap], nextSwapId |-> 1]

\* C27: replaying the emitted events in order gives the authoritative state.
\* In every reachable state the holders folded from the Transfer events (a
\* mint is the Transfer from the zero address) are the registry's holders,
\* and the swaps folded from SwapCreated, SwapExecuted and SwapCancelled have,
\* for every swap id, the state (none, Pending, Executed, Cancelled) and the
\* record (parties, assets, executed flag; erased when cancelled) that the
\* coordinator stores.
C27_ReplayGivesState ==
    /\ FoldHolders(NoHolders, log) = owners
    /\ LET v == FoldSwaps(NoSwaps, log) IN
        /\ v.nextSwapId = nextSwapId
        /\ \A id \in SwapIds :
              /\ State(v, id) = State(Storage, id)
              /\ v.swaps[id] = swaps[id]

\* the log is full: swap 1 was cancelled, swap 2 executed, and both assets
\* are with the other user
C27_Witness ==
    /\ Len(log) = MaxLog
    /\ State(Storage, 1) = Cancelled
    /\ State(Storage, 2) = Executed
    /\ owners[swaps[2].tokenA] = swaps[2].tokenBOwner
    /\ owners[swaps[2].tokenB] = swaps[2].tokenAOwner

\* ------------------------------------------------------- frontend: useTokens
\* the token ids of the events in the sequence l
TokenIds(l) == {l[i].tokenId : i \in DOMAIN l}

\* useTokens.fetchTokens for ownerAddress, on the storage s and the event log
\* l (all of l lies within the blocks the hook queries): the Transfer events
\* to the owner put their token in the map, with the URI read from the
\* registry (tokens whose tokenURI call fails are skipped), then the Transfer
\* events from the owner delete their token from the map
fetchTokens(s, l, ownerAddress) ==
    LET Received(e) == e.name = "Transfer" /\ e.to = ownerAddress
        Sent(e) == e.name = "Transfer" /\ e.from = ownerAddress
        receivedEvents == SelectSeq(l, Received)
        sentEvents == SelectSeq(l, Sent)
        tokenMap == {id \in TokenIds(receivedEvents) : exists(s, id)}
    IN  {[tokenId |-> id, owner |-> ownerAddress, uri |-> s.tokenURIs[id]] :
            id \in tokenMap \ TokenIds(sentEvents)}

\* C28: the token list useTokens builds for an owner from the Transfer events
\* is the set of the assets the owner holds now, whatever the history of
\* transfers, also when an asset left the owner and came back.
C28_TokenListIsHoldings ==
    \A o \in LogUsers :
        {t.tokenId : t \in fetchTokens(Storage, log, o)}
            = {id \in Tokens : owners[id] = o}

\* an asset was escrowed by its holder's createSwap and returned by
\* cancelSwap: the holder has it again, and the list built for the holder
\* lacks it
C28_Witness ==
    \E o \in LogUsers, id \in Tokens :
        /\ State(Storage, 1) = Cancelled
        /\ owners[id] = o
        /\ \E i \in DOMAIN log : log[i] = Transfer(o, SwapAddr, id)
        /\ \E i \in DOMAIN log : log[i] = Transfer(SwapAddr, o, id)
        /\ id \notin {t.tokenId : t \in fetchTokens(Storage, log, o)}

\* the Pending swaps of the storage s
PendingSwaps(s) == {id \in SwapIds : State(s, id) = Pending}

\* C34: in every reachable state the proposer's asset (tokenA) of every
\* Pending swap is held by the coordinator, and no two Pending swaps have the
\* same proposer's asset.
C34_PendingAssetInCustody ==
    /\ \A id \in PendingSwaps(Storage) :
          /\ exists(Storage, swaps[id].tokenA)
          /\ owners[swaps[id].tokenA] = SwapAddr
    /\ \A i \in PendingSwaps(Storage), j \in PendingSwaps(Storage) :
          i # j => swaps[i].tokenA # swaps[j].tokenA

\* two swaps are Pending at once, each with its own asset in custody
C34_Witness ==
    /\ PendingSwaps(Storage) = {1, 2}
    /\ swaps[1].tokenA # swaps[2].tokenA
    /\ \A t \in Tokens : owners[t] = SwapAddr

\* C35: no asset is stranded in the coordinator's custody: in every reachable
\* state every asset the coordinator holds is the proposer's asset of exactly
\* one Pending swap.
C35_NoStrandedAsset ==
    \A t \in Tokens :
        owners[t] = SwapAddr =>
            Cardinality({id \in PendingSwaps(Storage) : swaps[id].tokenA = t}) = 1

\* an asset is held by the coordinator while no swap is Pending, and no
\* account can move it: every cancelSwap, acceptSwap and transferFrom of it
\* fails
C35_Witness ==
    \E t \in Tokens :
        /\ owners[t] = SwapAddr
        /\ PendingSwaps(Storage) = {}
        /\ ~swapPaused
        /\ \A c \in Users :
              /\ \A id \in SwapIds : /\ cancelSwap(Storage, c, id).err # OK
                                     /\ acceptSwap(Storage, c, id).err # OK
              /\ \A to \in Holders :
                    transferFrom(Storage, c, SwapAddr, to, t).err # OK

C37_CustodyLeavesToParties ==
    [][\A t \in Tokens :
          (owners[t] = SwapAddr /\ owners'[t] # SwapAddr) =>
              \E id \in PendingSwaps(Storage) :
                  /\ swaps[id].tokenA = t
                  /\ \/ LET r == cancelSwap(Storage, swaps[id].tokenAOwner, id) IN
                        /\ r.err = OK
                        /\ Storage' = r.st
                        /\ owners'[t] = swaps[id].tokenAOwner
                     \/ LET r == acceptSwap(Storage, swaps[id].tokenBOwner, id) IN
                        /\ r.err = OK
                        /\ Storage' = r.st
                        /\ owners'[t] = swaps[id].tokenBOwner
                        /\ owners[swaps[id].tokenB] = swaps[id].tokenBOwner
                        /\ owners'[swaps[id].tokenB] = swaps[id].tokenAOwner]_vars

\* a Pending swap that its proposer can cancel and its counterparty can
\* accept, while the coordinator's owner, a third account, can do neither
C37_Witness ==
    \E id \in PendingSwaps(Storage) :
        /\ swapOwner \in Users \ {swaps[id].tokenAOwner, swaps[id].tokenBOwner}
        /\ cancelSwap(Storage, swaps[id].tokenAOwner, id).err = OK
        /\ acceptSwap(Storage, swaps[id].tokenBOwner, id).err = OK
        /\ cancelSwap(Storage, swapOwner, id).err # OK
        /\ acceptSwap(Storage, swapOwner, id).err # OK
        /\ transferFrom(Storage, swapOwner, SwapAddr, swapOwner, swaps[id].tokenA).err # OK

\* C38: when two Pending swaps name the same counterparty and the same
\* counterparty asset, a successful acceptSwap on one leaves the asset with
\* another holder, and from then on acceptSwap on the other fails for every
\* caller and changes nothing; more generally acceptSwap fails and changes
\* nothing in every state where the recorded counterparty of a Pending swap is
\* not the holder of the counterparty asset.
C38_OneAcceptPerAsset ==
    /\ \A i \in SwapIds : \A j \in SwapIds \ {i} :
        ( /\ State(Storage, i) = Pending
          /\ State(Storage, j) = Pending
          /\ swaps[i].tokenBOwner = swaps[j].tokenBOwner
          /\ swaps[i].tokenB = swaps[j].tokenB )
        => LET r == acceptSwap(Storage, swaps[i].tokenBOwner, i)
           IN  ( /\ r.err = OK
                 /\ r.st.owners[swaps[j].tokenB] # swaps[j].tokenBOwner )
               => \A c \in Users :
                    /\ acceptSwap(r.st, c, j).err # OK
                    /\ acceptSwap(r.st, c, j).st = r.st
    /\ \A j \in SwapIds :
        ( /\ State(Storage, j) = Pending
          /\ owners[swaps[j].tokenB] # swaps[j].tokenBOwner )
        => \A c \in Users :
             /\ acceptSwap(Storage, c, j).err # OK
             /\ acceptSwap(Storage, c, j).st = Storage

\* one of two swaps for the same counterparty asset is executed, the other is
\* still Pending, and the asset is with the proposer of the executed one
C38_Witness ==
    /\ nextSwapId = 3
    /\ swaps[1].executed
    /\ State(Storage, 2) = Pending
    /\ swaps[1].tokenBOwner = swaps[2].tokenBOwner
    /\ swaps[1].tokenB = swaps[2].tokenB
    /\ swaps[1].tokenAOwner # swaps[1].tokenBOwner
    /\ owners[swaps[2].tokenB] = swaps[1].tokenAOwner
    /\ tokenApprovals[swaps[2].tokenB] = SwapAddr

\* C39: the SwapCancelled fact emitted by a successful cancelSwap(swapId) names
\* in its tokenAOwner field the account that created the swap, the proposer
\* who receives the asset back.
C39_CancelledNamesProposer ==
    \A c \in Users, id \in SwapIds :
        LET r == cancelSwap(Storage, c, id)
        IN  r.err = OK =>
              /\ r.ev # <<>>
              /\ r.ev[Len(r.ev)].name = "SwapCancelled"
              /\ r.ev[Len(r.ev)].swapId = id
              /\ r.ev[Len(r.ev)].tokenAOwner = swaps[id].tokenAOwner
              /\ r.ev[Len(r.ev)].tokenAOwner = c

\* a Pending swap whose proposer's cancelSwap succeeds and emits SwapCancelled
C39_Witness ==
    \E id \in SwapIds :
        LET r == cancelSwap(Storage, swaps[id].tokenAOwner, id)
        IN  /\ State(Storage, id) = Pending
            /\ r.err = OK
            /\ r.ev[Len(r.ev)].name = "SwapCancelled"
            /\ r.ev[Len(r.ev)].tokenAOwner = Zero

\* C40: the two pause switches are independent.  While the registry is paused
\* mint fails and changes nothing, and transferFrom, approve,
\* setApprovalForAll, createSwap, acceptSwap and cancelSwap give the result they
\* give in the same storage with the registry running; while the coordinator
\* is paused createSwap, acceptSwap and cancelSwap fail and change nothing, and
\* mint, approve, setApprovalForAll and transferFrom give the result they give
\* in the same storage with the coordinator running.
C40_PausesIndependent ==
    LET cu == [Storage EXCEPT !.cardPaused = FALSE]
        su == [Storage EXCEPT !.swapPaused = FALSE]
    IN
    /\ cardPaused =>
        /\ \A c \in Users, to \in Holders, u \in Uris :
             nextTokenId <= MaxTokens =>
               mint(Storage, c, to, u) = Fail(Storage, SystemPaused)
        /\ \A c \in Users, id \in Tokens, to \in Holders :
             /\ approve(Storage, c, to, id) =
                  [approve(cu, c, to, id) EXCEPT !.st.cardPaused = TRUE]
             /\ \A from \in {c, owners[id]} :
                  transferFrom(Storage, c, from, to, id) =
                    [transferFrom(cu, c, from, to, id) EXCEPT !.st.cardPaused = TRUE]
        /\ \A c \in Users, o \in Holders, b \in BOOLEAN :
             setApprovalForAll(Storage, c, o, b) =
               [setApprovalForAll(cu, c, o, b) EXCEPT !.st.cardPaused = TRUE]
        /\ \A c \in Users, tokenA \in Tokens, tokenBOwner \in Users,
              tokenB \in Tokens :
             nextSwapId <= MaxSwaps =>
               createSwap(Storage, c, tokenA, tokenBOwner, tokenB) =
                 [createSwap(cu, c, tokenA, tokenBOwner, tokenB)
                    EXCEPT !.st.cardPaused = TRUE]
        /\ \A c \in Users, id \in SwapIds :
             /\ acceptSwap(Storage, c, id) =
                  [acceptSwap(cu, c, id) EXCEPT !.st.cardPaused = TRUE]
             /\ cancelSwap(Storage, c, id) =
                  [cancelSwap(cu, c, id) EXCEPT !.st.cardPaused = TRUE]
    /\ swapPaused =>
        /\ \A c \in Users, to \in Holders, u \in Uris :
             nextTokenId <= MaxTokens =>
               mint(Storage, c, to, u) =
                 [mint(su, c, to, u) EXCEPT !.st.swapPaused = TRUE]
        /\ \A c \in Users, id \in Tokens, to \in Holders :
             /\ approve(Storage, c, to, id) =
                  [approve(su, c, to, id) EXCEPT !.st.swapPaused = TRUE]
             /\ \A from \in {c, owners[id]} :
                  transferFrom(Storage, c, from, to, id) =
                    [transferFrom(su, c, from, to, id) EXCEPT !.st.swapPaused = TRUE]
        /\ \A c \in Users, o \in Holders, b \in BOOLEAN :
             setApprovalForAll(Storage, c, o, b) =
               [setApprovalForAll(su, c, o, b) EXCEPT !.st.swapPaused = TRUE]
        /\ \A c \in Users, tokenA \in Tokens, tokenBOwner \in Users,
              tokenB \in Tokens :
             nextSwapId <= MaxSwaps =>
               createSwap(Storage, c, tokenA, tokenBOwner, tokenB) =
                 Fail(Storage, SystemPaused)
        /\ \A c \in Users, id \in SwapIds :
             /\ acceptSwap(Storage, c, id) = Fail(Storage, SystemPaused)
             /\ cancelSwap(Storage, c, id) = Fail(Storage, SystemPaused)

\* both switches are on, a swap is Pending, its counterparty still moves the
\* asset the swap names, and its proposer's cancelSwap would succeed but for
\* the coordinator's pause
C40_Witness ==
    \E id \in SwapIds : \E to \in Users :
        /\ cardPaused
        /\ swapPaused
        /\ State(Storage, id) = Pending
        /\ owners[swaps[id].tokenB] = swaps[id].tokenBOwner
        /\ transferFrom(Storage, swaps[id].tokenBOwner, swaps[id].tokenBOwner,
                        to, swaps[id].tokenB).err = OK
        /\ cancelSwap([Storage EXCEPT !.swapPaused = FALSE],
                      swaps[id].tokenAOwner, id).err = OK
        /\ cancelSwap(Storage, swaps[id].tokenAOwner, id).err = SystemPaused

\* ------------------------------------------------ the pages' token and swap lists
\* the log entries a page may be shown under SpecView
MaxFacts == 8

\* the address the pages are opened for (ownerAddress of useTokens,
\* userAddress of useSwaps)
ViewAddress == "A"

\* Map.set of a token under its id: a key already in the map keeps its place
tokenMapSet(m, t) ==
    IF \E i \in DOMAIN m : m[i].tokenId = t.tokenId
    THEN [i \in DOMAIN m |-> IF m[i].tokenId = t.tokenId THEN t ELSE m[i]]
    ELSE Append(m, t)

\* useTokens.fetchTokens, the loop over the first n received events: each
\* event sets its token in the map with the URI read from the registry, and
\* an event whose tokenURI call fails is skipped
RECURSIVE tokenMapOf(_, _, _, _)
tokenMapOf(s, receivedEvents, ownerAddress, n) ==
    IF n = 0 THEN <<>>
    ELSE LET m == tokenMapOf(s, receivedEvents, ownerAddress, n - 1)
             id == receivedEvents[n].tokenId
         IN  IF exists(s, id)
             THEN tokenMapSet(m, [tokenId |-> id, owner |-> ownerAddress,
                                  uri |-> s.tokenURIs[id]])
             ELSE m

\* useTokens.fetchTokens as the list it hands to setTokens: the map of the
\* received events, the tokens of the sent events deleted, in the map's order
tokenList(s, l, ownerAddress) ==
    LET Received(e) == e.name = "Transfer" /\ e.to = ownerAddress
        Sent(e) == e.name = "Transfer" /\ e.from = ownerAddress
        receivedEvents == SelectSeq(l, Received)
        sentEvents == SelectSeq(l, Sent)
        Kept(t) == t.tokenId \notin TokenIds(sentEvents)
    IN  SelectSeq(tokenMapOf(s, receivedEvents, ownerAddress, Len(receivedEvents)),
                  Kept)

\* useTokens.handleTransfer on the list prev: a transfer to the owner appends
\* the token with the URI read from the registry (nothing when the tokenURI
\* call fails), a transfer from the owner filters the token out
handleTransfer(prev, s, ownerAddress, from, to, tokenId) ==
    IF to = ownerAddress
    THEN IF exists(s, tokenId)
         THEN prev \o <<[tokenId |-> tokenId, owner |-> ownerAddress,
                         uri |-> s.tokenURIs[tokenId]]>>
         ELSE prev
    ELSE IF from = ownerAddress
    THEN LET Other(t) == t.tokenId # tokenId IN SelectSeq(prev, Other)
    ELSE prev

\* Map.set of a swap under its id: a key already in the map keeps its place
swapMapSet(m, w) ==
    IF \E i \in DOMAIN m : m[i].swapId = w.swapId
    THEN [i \in DOMAIN m |-> IF m[i].swapId = w.swapId THEN w ELSE m[i]]
    ELSE Append(m, w)

\* the entry of the swap list made from a SwapCreated event
swapEntry(swapId, tokenAOwner, tokenA, tokenBOwner, tokenB) ==
    [swapId |-> swapId, offerer |-> tokenAOwner, counterparty |-> tokenBOwner,
     tokenAId |-> tokenA, tokenBId |-> tokenB, executed |-> FALSE]

\* useSwaps.fetchSwaps, the loop over the first n created events of the user
RECURSIVE swapMapOf(_, _)
swapMapOf(userCreatedEvents, n) ==
    IF n = 0 THEN <<>>
    ELSE LET e == userCreatedEvents[n]
         IN  swapMapSet(swapMapOf(userCreatedEvents, n - 1),
                        swapEntry(e.swapId, e.tokenAOwner, e.tokenA,
                                  e.tokenBOwner, e.tokenB))

\* useSwaps.fetchSwaps as the list it hands to setSwaps: the map of the
\* SwapCreated events that name the user, the swaps of the SwapExecuted events
\* marked executed, the swaps of the SwapCancelled events deleted
fetchSwaps(l, userAddress) ==
    LET IsCreated(e) ==
            /\ e.name = "SwapCreated"
            /\ (e.tokenAOwner = userAddress \/ e.tokenBOwner = userAddress)
        IsExecuted(e) == e.name = "SwapExecuted"
        IsCancelled(e) == e.name = "SwapCancelled"
        userCreatedEvents == SelectSeq(l, IsCreated)
        executedEvents == SelectSeq(l, IsExecuted)
        cancelledEvents == SelectSeq(l, IsCancelled)
        executedIds == {executedEvents[i].swapId : i \in DOMAIN executedEvents}
        cancelledIds == {cancelledEvents[i].swapId : i \in DOMAIN cancelledEvents}
        m == swapMapOf(userCreatedEvents, Len(userCreatedEvents))
        marked == [i \in DOMAIN m |->
                     IF m[i].swapId \in executedIds
                     THEN [m[i] EXCEPT !.executed = TRUE] ELSE m[i]]
        Kept(w) == w.swapId \notin cancelledIds
    IN  SelectSeq(marked, Kept)

\* useSwaps.handleSwapCreated on the list prev
handleSwapCreated(prev, userAddress, swapId, tokenAOwner, tokenA, tokenBOwner, tokenB) ==
    IF tokenAOwner = userAddress \/ tokenBOwner = userAddress
    THEN IF \E i \in DOMAIN prev : prev[i].swapId = swapId
         THEN prev
         ELSE prev \o <<swapEntry(swapId, tokenAOwner, tokenA, tokenBOwner, tokenB)>>
    ELSE prev

\* useSwaps.handleSwapExecuted on the list prev
handleSwapExecuted(prev, swapId) ==
    [i \in DOMAIN prev |->
        IF prev[i].swapId = swapId THEN [prev[i] EXCEPT !.executed = TRUE]
        ELSE prev[i]]

\* useSwaps.handleSwapCancelled on the list prev
handleSwapCancelled(prev, swapId) ==
    LET Other(w) == w.swapId # swapId IN SelectSeq(prev, Other)

\* the step of a call with its events appended to the log the pages follow;
\* the listeners have got the events of the calls before it
CommitView(r) ==
    /\ delivered = Len(log)
    /\ Len(log) + Len(SelectSeq(r.ev, IsFact)) <= MaxFacts
    /\ CommitStorage(r)
    /\ log' = log \o SelectSeq(r.ev, IsFact)

ViewMint ==
    \E c \in LogUsers, to \in LogUsers, u \in Uris :
        LET r == mint(Storage, c, to, u)
        IN  /\ nextTokenId <= MaxTokens
            /\ r.err = OK
            /\ CommitView(r)

ViewApprove ==
    \E c \in LogUsers, id \in Tokens :
        LET r == approve(Storage, c, SwapAddr, id)
        IN  /\ r.err = OK
            /\ CommitView(r)

ViewTransferFrom ==
    \E id \in Tokens, to \in LogUsers :
        LET r == transferFrom(Storage, ViewAddress, ViewAddress, to, id)
        IN  /\ r.err = OK
            /\ CommitView(r)

ViewCreateSwap ==
    \E c \in LogUsers, tokenA \in Tokens, tokenBOwner \in LogUsers, tokenB \in Tokens :
        LET r == createSwap(Storage, c, tokenA, tokenBOwner, tokenB)
        IN  /\ nextSwapId <= MaxSwaps
            /\ r.err = OK
            /\ CommitView(r)

ViewAcceptSwap ==
    \E c \in LogUsers, id \in SwapIds :
        LET r == acceptSwap(Storage, c, id)
        IN  /\ r.err = OK
            /\ CommitView(r)

ViewCancelSwap ==
    \E c \in LogUsers, id \in SwapIds :
        LET r == cancelSwap(Storage, c, id)
        IN  /\ r.err = OK
            /\ CommitView(r)

\* queryFilter(filter, creationBlock) on the log l: the events from the block
\* creationBlock on, those after the first fromBlock entries of l
queryFilter(l, fromBlock) == SubSeq(l, fromBlock + 1, Len(l))

\* 10000 blocks are mined with no call to the contracts: every event logged
\* so far now lies before currentBlock - 10000
BlocksPass ==
    /\ delivered = Len(log)
    /\ creationBlock < Len(log)
    /\ creationBlock' = Len(log)
    /\ UNCHANGED <<chainVars, tokens, swapList, delivered, walletVars>>

\* the pages are loaded: both hooks build their lists from the events of the
\* last 10000 blocks and subscribe to the events after them
LoadPages ==
    /\ delivered = Len(log)
    /\ tokens' = tokenList(Storage, queryFilter(log, creationBlock), ViewAddress)
    /\ swapList' = fetchSwaps(queryFilter(log, creationBlock), ViewAddress)
    /\ delivered' = Len(log)
    /\ UNCHANGED <<chainVars, creationBlock, walletVars>>

\* the next event of the log is a Transfer and useTokens' listener gets it
HandleTransfer ==
    /\ delivered < Len(log)
    /\ log[delivered + 1].name = "Transfer"
    /\ LET e == log[delivered + 1]
       IN  tokens' = handleTransfer(tokens, Storage, ViewAddress,
                                    e.from, e.to, e.tokenId)
    /\ delivered' = delivered + 1
    /\ UNCHANGED <<chainVars, swapList, creationBlock, walletVars>>

\* the next event of the log is a SwapCreated and useSwaps' listener gets it
HandleSwapCreated ==
    /\ delivered < Len(log)
    /\ log[delivered + 1].name = "SwapCreated"
    /\ LET e == log[delivered + 1]
       IN  swapList' = handleSwapCreated(swapList, ViewAddress, e.swapId,
                                         e.tokenAOwner, e.tokenA,
                                         e.tokenBOwner, e.tokenB)
    /\ delivered' = delivered + 1
    /\ UNCHANGED <<chainVars, tokens, creationBlock, walletVars>>

\* the next event of the log is a SwapExecuted and useSwaps' listener gets it
HandleSwapExecuted ==
    /\ delivered < Len(log)
    /\ log[delivered + 1].name = "SwapExecuted"
    /\ swapList' = handleSwapExecuted(swapList, log[delivered + 1].swapId)
    /\ delivered' = delivered + 1
    /\ UNCHANGED <<chainVars, tokens, creationBlock, walletVars>>

\* the next event of the log is a SwapCancelled and useSwaps' listener gets it
HandleSwapCancelled ==
    /\ delivered < Len(log)
    /\ log[delivered + 1].name = "SwapCancelled"
    /\ swapList' = handleSwapCancelled(swapList, log[delivered + 1].swapId)
    /\ delivered' = delivered + 1
    /\ UNCHANGED <<chainVars, tokens, creationBlock, walletVars>>

NextView ==
    \/ ViewMint
    \/ ViewApprove
    \/ ViewTransferFrom
    \/ ViewCreateSwap
    \/ ViewAcceptSwap
    \/ ViewCancelSwap
    \/ BlocksPass
    \/ LoadPages
    \/ HandleTransfer
    \/ HandleSwapCreated
    \/ HandleSwapExecuted
    \/ HandleSwapCancelled

SpecView == Init /\ [][NextView]_vars

\* C31: the live Transfer handler of useTokens is idempotent by asset id.  No
\* asset id appears more than once in the token list; handing the listener
\* again the Transfer it got last leaves the list as it is; and handing it a
\* Transfer to the owner for an asset already in the list leaves the list as
\* it is.
C31_TransferHandlerIdempotent ==
    /\ \A i \in DOMAIN tokens : \A j \in DOMAIN tokens :
         tokens[i].tokenId = tokens[j].tokenId => i = j
    /\ (delivered > 0 /\ log[delivered].name = "Transfer") =>
         handleTransfer(tokens, Storage, ViewAddress, log[delivered].from,
                        log[delivered].to, log[delivered].tokenId) = tokens
    /\ \A i \in DOMAIN tokens : \A from \in Address \ {ViewAddress} :
         handleTransfer(tokens, Storage, ViewAddress, from, ViewAddress,
                        tokens[i].tokenId) = tokens

\* every event of the log was handed to the listeners once and in order, the
\* owner holds the asset once, and the token list shows it twice
C31_Witness ==
    /\ delivered = Len(log)
    /\ \E i \in DOMAIN tokens : \E j \in DOMAIN tokens :
         /\ i # j
         /\ tokens[i].tokenId = tokens[j].tokenId
         /\ owners[tokens[i].tokenId] = ViewAddress

\* the swaps the events of l show for the user: those of the SwapCreated
\* events naming the user as proposer or counterparty that no SwapCancelled
\* event names, executed exactly when a SwapExecuted event names them
SwapsShown(l, userAddress) ==
    LET Named(n, id) == \E i \in DOMAIN l : l[i].name = n /\ l[i].swapId = id
    IN  { [swapEntry(l[i].swapId, l[i].tokenAOwner, l[i].tokenA,
                     l[i].tokenBOwner, l[i].tokenB)
             EXCEPT !.executed = Named("SwapExecuted", l[i].swapId)] :
          i \in { k \in DOMAIN l :
                    /\ l[k].name = "SwapCreated"
                    /\ (l[k].tokenAOwner = userAddress \/ l[k].tokenBOwner = userAddress)
                    /\ ~Named("SwapCancelled", l[k].swapId) } }

\* C32: the swap list of useSwaps holds exactly the swaps whose SwapCreated
\* event names the user as proposer or counterparty and that were not
\* cancelled, each once, executed exactly when a SwapExecuted event exists for
\* its id, both as built from the log and as kept by the live handlers; and
\* handing a listener again the event it got last leaves the list as it is.
C32_SwapListIsFacts ==
    /\ {swapList[i] : i \in DOMAIN swapList}
         = SwapsShown(SubSeq(log, 1, delivered), ViewAddress)
    /\ \A i \in DOMAIN swapList : \A j \in DOMAIN swapList :
         swapList[i].swapId = swapList[j].swapId => i = j
    /\ delivered > 0 =>
         LET e == log[delivered]
         IN  /\ e.name = "SwapCreated" =>
                  handleSwapCreated(swapList, ViewAddress, e.swapId, e.tokenAOwner,
                                    e.tokenA, e.tokenBOwner, e.tokenB) = swapList
             /\ e.name = "SwapExecuted" =>
                  handleSwapExecuted(swapList, e.swapId) = swapList
             /\ e.name = "SwapCancelled" =>
                  handleSwapCancelled(swapList, e.swapId) = swapList

\* the user's swap is Pending with its asset in custody, the pages were loaded
\* after its SwapCreated event went out of the queried blocks, every event was
\* handed to the listeners, and the swap list lacks the swap
C32_Witness ==
    \E id \in SwapIds :
        /\ State(Storage, id) = Pending
        /\ swaps[id].tokenAOwner = ViewAddress
        /\ owners[swaps[id].tokenA] = SwapAddr
        /\ delivered = Len(log)
        /\ creationBlock > 0
        /\ \A i \in DOMAIN swapList : swapList[i].swapId # id

\* ---------------------------------------------------------------- useWallet
\* the accounts of the wallet extension
WalletAccounts == {"A", "B"}

\* what the extension shows the site: no account, or the selected one
AccountLists == {<<>>} \cup {<<a>> : a \in WalletAccounts}

\* the state setWalletState gets once signer, address, network and balance
\* are read: connected with the extension's selected account
Connected(address) ==
    [address |-> address, isConnected |-> TRUE, isConnecting |-> FALSE]

\* isManuallyDisconnected, as initializeWallet and the effect compute it
isManuallyDisconnected == manuallyDisconnected \/ localStorage

\* the effect to run after a render that took walletState from w to w2 and
\* the flag from m to m2: the listener effect depends on isConnected and on
\* manuallyDisconnected
effectAfter(w, w2, m, m2) ==
    IF w.isConnected # w2.isConnected \/ m # m2 THEN "update" ELSE effectDue

\* the listener effect of useWallet, and on mount the effect that checks the
\* stored flag: the listeners of the run before are removed; when the user
\* disconnected manually the state is forced to disconnected; otherwise the
\* listeners are registered and initializeWallet is called, passes its
\* flag check and waits for the extension's accounts.  On mount the stored
\* flag then clears the wallet data and sets the hook's flag.
RunEffect ==
    /\ effectDue # "none"
    /\ IF isManuallyDisconnected
       THEN /\ listening' = FALSE
            /\ walletState' = Disconnected
            /\ calls' = calls
       ELSE /\ listening' = TRUE
            /\ walletState' = walletState
            /\ calls' = calls \cup {"initializeWallet"}
    /\ manuallyDisconnected' =
         IF effectDue = "mount" /\ localStorage THEN TRUE ELSE manuallyDisconnected
    /\ effectDue' =
         IF \/ walletState'.isConnected # walletState.isConnected
            \/ manuallyDisconnected' # manuallyDisconnected
         THEN "update" ELSE "none"
    /\ UNCHANGED <<localStorage, accounts, chainVars, viewVars>>

\* initializeWallet after its awaits: with an account listed it sets the
\* wallet connected
InitializeWalletResume ==
    /\ effectDue = "none"
    /\ "initializeWallet" \in calls
    /\ calls' = calls \ {"initializeWallet"}
    /\ walletState' = IF accounts # <<>> THEN Connected(accounts[1]) ELSE walletState
    /\ effectDue' = effectAfter(walletState, walletState',
                                manuallyDisconnected, manuallyDisconnected)
    /\ UNCHANGED <<manuallyDisconnected, localStorage, listening, accounts,
                   chainVars, viewVars>>

\* connect(), up to its first await (the page shows the button while the
\* wallet is not connected): both flags are reset, isConnecting is set
Connect ==
    /\ effectDue = "none"
    /\ ~walletState.isConnected
    /\ ~walletState.isConnecting
    /\ manuallyDisconnected' = FALSE
    /\ localStorage' = FALSE
    /\ walletState' = [walletState EXCEPT !.isConnecting = TRUE]
    /\ calls' = calls \cup {"connect"}
    /\ effectDue' = effectAfter(walletState, walletState',
                                manuallyDisconnected, FALSE)
    /\ UNCHANGED <<listening, accounts, chainVars, viewVars>>

\* connect() after its awaits: the user approved an account in the extension
\* and the wallet is set connected, or the request failed and isConnecting
\* is reset
ConnectResume ==
    /\ effectDue = "none"
    /\ "connect" \in calls
    /\ calls' = calls \ {"connect"}
    /\ \/ \E a \in WalletAccounts :
            /\ accounts' = <<a>>
            /\ walletState' = Connected(a)
       \/ /\ accounts' = accounts
          /\ walletState' = [walletState EXCEPT !.isConnecting = FALSE]
    /\ effectDue' = effectAfter(walletState, walletState',
                                manuallyDisconnected, manuallyDisconnected)
    /\ UNCHANGED <<manuallyDisconnected, localStorage, listening,
                   chainVars, viewVars>>

\* disconnect() (the page shows the button while the wallet is connected)
Disconnect ==
    /\ effectDue = "none"
    /\ walletState.isConnected
    /\ manuallyDisconnected' = TRUE
    /\ localStorage' = TRUE
    /\ walletState' = Disconnected
    /\ effectDue' = effectAfter(walletState, Disconnected,
                                manuallyDisconnected, TRUE)
    /\ UNCHANGED <<listening, calls, accounts, chainVars, viewVars>>

\* the extension's accounts change; with the listener registered
\* handleAccountsChanged runs: no account is a disconnect(), another account
\* while connected goes on to read signer and balance
AccountsChanged ==
    /\ effectDue = "none"
    /\ \E new \in AccountLists \ {accounts} :
        /\ accounts' = new
        /\ IF listening /\ new = <<>>
           THEN /\ manuallyDisconnected' = TRUE
                /\ localStorage' = TRUE
                /\ walletState' = Disconnected
                /\ calls' = calls
           ELSE /\ UNCHANGED <<manuallyDisconnected, localStorage, walletState>>
                /\ calls' = IF listening /\ walletState.isConnected
                            THEN calls \cup {"handleAccountsChanged"}
                            ELSE calls
    /\ effectDue' = effectAfter(walletState, walletState',
                                manuallyDisconnected, manuallyDisconnected')
    /\ UNCHANGED <<listening, chainVars, viewVars>>

\* handleAccountsChanged after its awaits: address, signer and balance of the
\* selected account are written into the state
HandleAccountsChangedResume ==
    /\ effectDue = "none"
    /\ "handleAccountsChanged" \in calls
    /\ calls' = calls \ {"handleAccountsChanged"}
    /\ walletState' = IF accounts # <<>>
                      THEN [walletState EXCEPT !.address = accounts[1]]
                      ELSE walletState
    /\ UNCHANGED <<manuallyDisconnected, localStorage, listening, effectDue,
                   accounts, chainVars, viewVars>>

\* the page is reloaded (by the user, or by handleChainChanged): the hook
\* starts from its initial state with the flag read from localStorage
Reload ==
    /\ effectDue = "none"
    /\ walletState' = Disconnected
    /\ manuallyDisconnected' = localStorage
    /\ listening' = FALSE
    /\ calls' = {}
    /\ effectDue' = "mount"
    /\ UNCHANGED <<localStorage, accounts, chainVars, viewVars>>

NextWallet ==
    \/ RunEffect
    \/ InitializeWalletResume
    \/ Connect
    \/ ConnectResume
    \/ Disconnect
    \/ AccountsChanged
    \/ HandleAccountsChangedResume
    \/ Reload

SpecWallet == Init /\ [][NextWallet]_vars

\* C33: after disconnect() the wallet stays disconnected, connected false and
\* address null, through every later initialisation, reload and account
\* change until connect() is called: while the stored manual-disconnect flag
\* stays set (disconnect() sets it, only connect() resets it) no step makes
\* the wallet connected or gives it an address, except the completion of a
\* connect() that was already waiting.
C33_StaysDisconnected ==
    [][ ( /\ localStorage
          /\ localStorage'
          /\ \/ ~walletState.isConnected /\ walletState'.isConnected
             \/ walletState.address = Null /\ walletState'.address # Null )
        => ("connect" \in calls /\ "connect" \notin calls') ]_vars

\* the manual-disconnect flag is set in the hook and in the browser, nothing
\* is waiting and no effect is due, the wallet is not connected, and it has
\* an address
C33_Witness ==
    /\ localStorage
    /\ manuallyDisconnected
    /\ calls = {}
    /\ effectDue = "none"
    /\ ~walletState.isConnected
    /\ walletState.address # Null

====
